---- MODULE Spec2Model ----
(***************************************************************************)
(* Model of the SolarEdge monitoring API client: the request/response      *)
(* mapping layer of src/src (client.rs, api/mod.rs, api/request.rs,        *)
(* api/enums.rs, api/response*.rs, error.rs).                              *)
(*                                                                         *)
(* Text is a sequence of one-character strings, a byte string a sequence   *)
(* of numbers in 0..255.  Option values are None / Some(x), results are    *)
(* Ok(x) / Err(e).                                                         *)
(***************************************************************************)
EXTENDS Integers, Sequences, FiniteSets, TLC

None == [tag |-> "None"]
Some(x) == [tag |-> "Some", v |-> x]
IsSome(o) == o.tag = "Some"
Ok(x) == [tag |-> "Ok", v |-> x]
Err(e) == [tag |-> "Err", e |-> e]
IsOk(r) == r.tag = "Ok"
IsErr(r) == r.tag = "Err"

(***************************************************************************)
(* Characters and bytes                                                    *)
(***************************************************************************)
\* the quote characters and the backslash, written by their code points
DQuote == "U+0022"
Backslash == "U+005C"
Backtick == "U+0060"
SQuote == "U+0027"

Ascii ==
  <<" ","!",DQuote,"#","$","%","&",SQuote,"(",")","*","+",",","-",".","/",
    "0","1","2","3","4","5","6","7","8","9",":",";","<","=",">","?","@",
    "A","B","C","D","E","F","G","H","I","J","K","L","M","N","O","P","Q","R",
    "S","T","U","V","W","X","Y","Z","[",Backslash,"]","^","_",Backtick,
    "a","b","c","d","e","f","g","h","i","j","k","l","m","n","o","p","q","r",
    "s","t","u","v","w","x","y","z","{","|","}","~">>

\* the one non-ASCII character of the model, U+00E9, and its UTF-8 encoding
EAcute == "U+00E9"
\* U+FFFD REPLACEMENT CHARACTER
Replacement == "U+FFFD"

IsAsciiChar(c) == \E i \in 1..Len(Ascii) : Ascii[i] = c
Code(c) == 31 + (CHOOSE i \in 1..Len(Ascii) : Ascii[i] = c)
CharOf(b) == Ascii[b - 31]

Utf8Char(c) ==
  IF c = EAcute THEN <<195, 169>>
  ELSE IF c = Replacement THEN <<239, 191, 189>>
  ELSE <<Code(c)>>

\* the concatenation of the sequences ss[lo], ..., ss[hi]
RECURSIVE ConcatRange(_, _, _)
ConcatRange(ss, lo, hi) ==
  IF lo > hi THEN <<>>
  ELSE IF lo = hi THEN ss[lo]
  ELSE LET mid == (lo + hi) \div 2 IN ConcatRange(ss, lo, mid) \o ConcatRange(ss, mid + 1, hi)

Concat(ss) == ConcatRange(ss, 1, Len(ss))

Utf8(s) == Concat([i \in 1..Len(s) |-> Utf8Char(s[i])])

Digits == <<"0","1","2","3","4","5","6","7","8","9">>
HexDigits == <<"0","1","2","3","4","5","6","7","8","9","A","B","C","D","E","F">>

\* Display of an unsigned integer (format!("{n}"), itoa)
RECURSIVE Dec(_)
Dec(n) == IF n < 10 THEN <<Digits[n + 1]>> ELSE Dec(n \div 10) \o <<Digits[(n % 10) + 1]>>

\* zero-padded decimal of at least w digits (chrono %Y %m %d %H %M %S)
RECURSIVE Pad(_, _)
Pad(n, w) == IF Len(Dec(n)) >= w THEN Dec(n) ELSE <<"0">> \o Pad(n, w - 1)

IsAlnumByte(b) == b \in 48..57 \/ b \in 65..90 \/ b \in 97..122

\* percent_encoding::percent_encode_byte: "%XX", upper-case hex
percent_encode_byte(b) == <<"%", HexDigits[(b \div 16) + 1], HexDigits[(b % 16) + 1]>>

\* percent_encoding::utf8_percent_encode(s, NON_ALPHANUMERIC): every byte of
\* the UTF-8 form that is not an ASCII letter or digit becomes %XX
percent_encode_non_alphanumeric(bs) ==
  Concat([i \in 1..Len(bs) |->
            IF IsAlnumByte(bs[i]) THEN <<CharOf(bs[i])>> ELSE percent_encode_byte(bs[i])])

utf8_percent_encode(s) == percent_encode_non_alphanumeric(Utf8(s))

\* form_urlencoded::byte_serialize, used by serde_urlencoded for keys and values
byte_serialized_unchanged(b) == IsAlnumByte(b) \/ b \in {42, 45, 46, 95}

byte_serialize(bs) ==
  Concat([i \in 1..Len(bs) |->
            IF bs[i] = 32 THEN <<"+">>
            ELSE IF byte_serialized_unchanged(bs[i]) THEN <<CharOf(bs[i])>>
            ELSE percent_encode_byte(bs[i])])

FormEncode(s) == byte_serialize(Utf8(s))

(***************************************************************************)
(* Request enums (api/enums.rs) and parameter adapters (api/mod.rs)        *)
(***************************************************************************)
Variant(e, n) == [enum |-> e, name |-> n]

SortOrder == {Variant("SortOrder", <<"A","s","c","e","n","d","i","n","g">>), Variant("SortOrder", <<"D","e","s","c","e","n","d","i","n","g">>)}
SiteSortBy == {Variant("SiteSortBy", <<"N","a","m","e">>), Variant("SiteSortBy", <<"P","e","a","k","P","o","w","e","r">>)}
SiteStatus == {Variant("SiteStatus", <<"A","c","t","i","v","e">>), Variant("SiteStatus", <<"P","e","n","d","i","n","g">>)}
TimeUnit == {Variant("TimeUnit", <<"Q","u","a","r","t","e","r","O","f","A","n","H","o","u","r">>), Variant("TimeUnit", <<"D","a","y">>)}
MeterType == {Variant("MeterType", <<"P","r","o","d","u","c","t","i","o","n">>), Variant("MeterType", <<"F","e","e","d","I","n">>)}
SystemUnits == {Variant("SystemUnits", <<"M","e","t","r","i","c","s">>), Variant("SystemUnits", <<"I","m","p","e","r","i","a","l">>)}
AccountSortBy == {Variant("AccountSortBy", <<"N","a","m","e">>), Variant("AccountSortBy", <<"Z","i","p">>)}

\* the name of a unit variant with every #[serde(rename)] ignored
VariantName_ident(v) == v.name

\* the name serde gives a unit variant: the #[serde(rename)] token, else the
\* Rust identifier
VariantName(v) ==
  IF v.enum = "PowerUnit"
  THEN (IF v.name = <<"K","w">> THEN <<"k","W">> ELSE v.name)
  ELSE IF v.enum = "SortOrder"
  THEN (IF v.name = <<"A","s","c","e","n","d","i","n","g">> THEN <<"A","S","C">> ELSE <<"D","E","S","C">>)
  ELSE IF v.enum = "TimeUnit"
  THEN (IF v.name = <<"Q","u","a","r","t","e","r","O","f","A","n","H","o","u","r">> THEN <<"Q","U","A","R","T","E","R","_","O","F","_","A","N","_","H","O","U","R">>
        ELSE IF v.name = <<"H","o","u","r">> THEN <<"H","O","U","R">>
        ELSE IF v.name = <<"D","a","y">> THEN <<"D","A","Y">>
        ELSE IF v.name = <<"W","e","e","k">> THEN <<"W","E","E","K">>
        ELSE IF v.name = <<"M","o","n","t","h">> THEN <<"M","O","N","T","H">>
        ELSE <<"Y","E","A","R">>)
  ELSE v.name

\* a list item is an enum value or an owned string
StringItem(s) == [string |-> s]
IsVariant(x) == "enum" \in DOMAIN x

\* serde_variant::to_variant_name: the name of a unit variant; any value that
\* is not an enum variant (a String among them) is an UnsupportedType error
to_variant_name(x) == IF IsVariant(x) THEN Ok(VariantName(x)) ELSE Err("UnsupportedType")

\* the outcome of serializing one value: Ok(Some(text)), Ok(None) for
\* serialize_none, or Err
RECURSIVE comma_loop(_, _, _)
comma_loop(slice, res, first) ==
  IF slice = <<>> THEN Ok(res)
  ELSE LET name == to_variant_name(Head(slice)) IN
       IF IsErr(name) THEN Err([kind |-> "Custom", msg |-> name.e])
       ELSE comma_loop(Tail(slice), (IF ~first THEN res \o <<",">> ELSE res) \o name.v, FALSE)

\* serialize_comma_slice with the separator pushed after every item instead of
\* between items
RECURSIVE comma_loop_trailing(_, _)
comma_loop_trailing(slice, res) ==
  IF slice = <<>> THEN Ok(res)
  ELSE LET name == to_variant_name(Head(slice)) IN
       IF IsErr(name) THEN Err([kind |-> "Custom", msg |-> name.e])
       ELSE comma_loop_trailing(Tail(slice), res \o name.v \o <<",">>)

serialize_comma_slice_trailing(slice) ==
  LET res == comma_loop_trailing(slice, <<>>) IN
  IF IsErr(res) THEN res ELSE Ok(Some(res.v))

serialize_comma_slice(slice) ==
  LET res == comma_loop(slice, <<>>, TRUE) IN
  IF IsErr(res) THEN res ELSE Ok(Some(res.v))

serialize_comma_slice_opt(slice) ==
  IF IsSome(slice) THEN serialize_comma_slice(slice.v) ELSE Ok(None)

NaiveDate(y, m, d) == [y |-> y, m |-> m, d |-> d]
NaiveDateTime(date, h, mi, s) == [date |-> date, h |-> h, mi |-> mi, s |-> s]

\* %Y with no plus sign before a year of more than four digits
FormatYear_without_plus(y) == IF y >= 0 THEN Pad(y, 4) ELSE <<"-">> \o Pad(0 - y, 4)

\* chrono %Y: four digits for the years 0..9999, an explicit sign otherwise
FormatYear(y) ==
  IF y \in 0..9999 THEN Pad(y, 4)
  ELSE IF y > 0 THEN <<"+">> \o Pad(y, 4) ELSE <<"-">> \o Pad(0 - y, 4)

\* the date written without padding, as the format %Y-%-m-%-d would
FormatDate_unpadded(d) == FormatYear(d.y) \o <<"-">> \o Dec(d.m) \o <<"-">> \o Dec(d.d)

FormatDate(d) == FormatYear(d.y) \o <<"-">> \o Pad(d.m, 2) \o <<"-">> \o Pad(d.d, 2)
FormatDateTime(t) ==
  FormatDate(t.date) \o <<" ">> \o Pad(t.h, 2) \o <<":">> \o Pad(t.mi, 2) \o <<":">> \o Pad(t.s, 2)

DateSerde_serialize(d) == Ok(Some(FormatDate(d)))
DateTimeSerde_serialize(d) == Ok(Some(FormatDateTime(d)))

(***************************************************************************)
(* Parameter structs (api/request.rs): a struct is the sequence of its     *)
(* fields in declaration order, each with its camelCase key, the way it is *)
(* serialized and its value.                                               *)
(***************************************************************************)
Field(key, ty, v) == [key |-> key, ty |-> ty, v |-> v]

SerializeField(f) ==
  CASE f.ty = "Option<uint>" -> IF IsSome(f.v) THEN Ok(Some(Dec(f.v.v))) ELSE Ok(None)
    [] f.ty = "Option<str>" -> IF IsSome(f.v) THEN Ok(Some(f.v.v)) ELSE Ok(None)
    [] f.ty = "Option<enum>" -> IF IsSome(f.v) THEN Ok(Some(VariantName(f.v.v))) ELSE Ok(None)
    [] f.ty = "DateSerde" -> DateSerde_serialize(f.v)
    [] f.ty = "DateTimeSerde" -> DateTimeSerde_serialize(f.v)
    [] f.ty = "serialize_comma_slice_opt" -> serialize_comma_slice_opt(f.v)

\* serde_urlencoded::to_string: the fields in order, a None value skipped,
\* key and value form-urlencoded, pairs joined by "&"; the first error aborts
RECURSIVE to_string_loop(_, _)
to_string_loop(fields, out) ==
  IF fields = <<>> THEN Ok(out)
  ELSE LET f == Head(fields)
           r == SerializeField(f) IN
       IF IsErr(r) THEN r
       ELSE IF ~IsSome(r.v) THEN to_string_loop(Tail(fields), out)
       ELSE to_string_loop(Tail(fields),
              (IF out = <<>> THEN <<>> ELSE out \o <<"&">>)
                \o FormEncode(f.key) \o <<"=">> \o FormEncode(r.v.v))

serde_urlencoded_to_string(params) == to_string_loop(params, <<>>)

Unit == <<>>

(***************************************************************************)
(* URLs (the url crate as client.rs uses it: Url::join of a path that      *)
(* starts with "/", set_query, to_string)                                  *)
(***************************************************************************)
Url(scheme, host, path, query, fragment) ==
  [scheme |-> scheme, host |-> host, path |-> path, query |-> query, fragment |-> fragment]

\* Url::parse("https://monitoringapi.solaredge.com")
StaticBaseUrl == Url(<<"h","t","t","p","s">>, <<"m","o","n","i","t","o","r","i","n","g","a","p","i",".","s","o","l","a","r","e","d","g","e",".","c","o","m">>, << <<>> >>, None, None)

\* the path percent-encode set (space, double quote, backtick, < > { }) and everything non-ASCII
\* (# and ? end the path before they get here); "%" is kept
PathEncodeChar(c) ==
  IF ~IsAsciiChar(c) \/ c \in {" ", DQuote, "<", ">", Backtick, "{", "}", "#", "?"}
  THEN percent_encode_non_alphanumeric(Utf8Char(c))
  ELSE <<c>>

\* the query percent-encode set of a special scheme (space, both quotes, # < >)
QueryEncodeChar(c) ==
  IF ~IsAsciiChar(c) \/ c \in {" ", DQuote, "#", "<", ">", SQuote}
  THEN percent_encode_non_alphanumeric(Utf8Char(c))
  ELSE <<c>>

QueryEncode(s) == Concat([i \in 1..Len(s) |-> QueryEncodeChar(s[i])])
PathEncode(s) == Concat([i \in 1..Len(s) |-> PathEncodeChar(s[i])])

\* the positions of the characters of s that are in cs, and the pieces of s
\* between them
Positions(s, cs) == {i \in 1..Len(s) : s[i] \in cs}
NthOf(P, k) == CHOOSE p \in P : Cardinality({q \in P : q < p}) = k - 1
Split(s, cs) ==
  LET P == Positions(s, cs)
      start(k) == IF k = 1 THEN 1 ELSE NthOf(P, k - 1) + 1
      end(k) == IF k = Cardinality(P) + 1 THEN Len(s) ELSE NthOf(P, k) - 1
  IN [k \in 1..(Cardinality(P) + 1) |-> SubSeq(s, start(k), end(k))]

\* s up to the first character in cs, and s from that character on
FirstOf(s, cs) ==
  IF Positions(s, cs) = {} THEN Len(s) + 1 ELSE NthOf(Positions(s, cs), 1)
UpTo(s, cs) == SubSeq(s, 1, FirstOf(s, cs) - 1)
From(s, cs) == SubSeq(s, FirstOf(s, cs), Len(s))

IsDoubleDot(seg) ==
  seg \in {<<".",".">>, <<".","%","2","e">>, <<".","%","2","E">>, <<"%","2","e",".">>, <<"%","2","E",".">>,
           <<"%","2","e","%","2","e">>, <<"%","2","e","%","2","E">>, <<"%","2","E","%","2","e">>, <<"%","2","E","%","2","E">>}
IsSingleDot(seg) == seg \in {<<".">>, <<"%","2","e">>, <<"%","2","E">>}

\* the end of one path segment in Parser::parse_path: a double-dot segment
\* removes the last segment, a single-dot segment is dropped, and either
\* leaves an empty segment when it is the last one
PushSegment(segs, seg, last) ==
  IF IsDoubleDot(seg)
  THEN LET shortened == IF segs = <<>> THEN <<>> ELSE SubSeq(segs, 1, Len(segs) - 1) IN
       IF last THEN Append(shortened, <<>>) ELSE shortened
  ELSE IF IsSingleDot(seg)
  THEN (IF last THEN Append(segs, <<>>) ELSE segs)
  ELSE Append(segs, seg)

\* Parser::parse_path: segments end at "/" (or at a backslash in a special
\* scheme), the path ends at "?" or "#"; each segment is percent-encoded
RECURSIVE PushSegments(_, _, _)
PushSegments(raw, k, segs) ==
  IF k > Len(raw) THEN segs
  ELSE PushSegments(raw, k + 1, PushSegment(segs, PathEncode(raw[k]), k = Len(raw)))

parse_path(input) ==
  [path |-> PushSegments(Split(UpTo(input, {"?", "#"}), {"/", Backslash}), 1, <<>>),
   rest |-> From(input, {"?", "#"})]

\* Url::join for a reference that is an absolute path ("/..."): scheme and
\* host of the base are kept, path, query and fragment come from the reference
Url_join(base, url_path) ==
  LET p == parse_path(Tail(url_path))
      rest == p.rest
      q == IF rest # <<>> /\ Head(rest) = "?" THEN Some(QueryEncode(UpTo(Tail(rest), {"#"}))) ELSE None
      frest == From(rest, {"#"})
      f == IF frest # <<>> THEN Some(Tail(frest)) ELSE None
  IN Url(base.scheme, base.host, p.path, q, f)

Url_set_query(url, query) == [url EXCEPT !.query = Some(QueryEncode(query))]

\* Url::query_pairs_mut().append_pair(name, value): a query that was absent
\* becomes empty, "&" is written when pairs are already there, name and
\* value are form-urlencoded
Url_append_pair_first(url, name, value) ==
  [url EXCEPT !.query = Some(FormEncode(name) \o <<"=">> \o FormEncode(value)
                             \o (IF IsSome(url.query) /\ url.query.v # <<>> THEN <<"&">> \o url.query.v ELSE <<>>))]
Url_append_pair(url, name, value) ==
  [url EXCEPT !.query = Some((IF IsSome(url.query) /\ url.query.v # <<>> THEN url.query.v \o <<"&">> ELSE <<>>)
                             \o FormEncode(name) \o <<"=">> \o FormEncode(value))]

PathToString(segs) == Concat([k \in 1..Len(segs) |-> <<"/">> \o segs[k]])

Url_to_string(url) ==
  url.scheme \o <<":","/","/">> \o url.host \o PathToString(url.path)
    \o (IF IsSome(url.query) THEN <<"?">> \o url.query.v ELSE <<>>)
    \o (IF IsSome(url.fragment) THEN <<"#">> \o url.fragment.v ELSE <<>>)

(***************************************************************************)
(* JSON values, as serde_json hands them to the derived Deserialize impls  *)
(***************************************************************************)
JNull == [j |-> "null"]
JBool(b) == [j |-> "bool", v |-> b]
JNum(n) == [j |-> "num", v |-> n]
JStr(s) == [j |-> "str", v |-> s]
JArr(a) == [j |-> "arr", v |-> a]
JObj(o) == [j |-> "obj", v |-> o]

JsonError(msg) == Err([kind |-> "Json", msg |-> msg])

(***************************************************************************)
(* Date and date-time parsing (api/mod.rs over chrono's parse_from_str)    *)
(***************************************************************************)
IsDigit(c) == c \in {"0","1","2","3","4","5","6","7","8","9"}
DigitVal(c) == CHOOSE i \in 0..9 : Digits[i + 1] = c
IsSpace(c) == c = " "

RECURSIVE TrimStart(_)
TrimStart(s) == IF s # <<>> /\ IsSpace(Head(s)) THEN TrimStart(Tail(s)) ELSE s

\* chrono format::scan::number(s, 1, max): between 1 and max leading digits
RECURSIVE ScanDigits(_, _, _, _)
ScanDigits(s, max, n, acc) ==
  IF n < max /\ s # <<>> /\ IsDigit(Head(s))
  THEN ScanDigits(Tail(s), max, n + 1, acc * 10 + DigitVal(Head(s)))
  ELSE [n |-> n, v |-> acc, rest |-> s]

\* the items of a chrono format string: a number of at most max digits, the
\* year (a number that may carry a sign), a literal character, white space
Item(kind, max, c) == [kind |-> kind, max |-> max, c |-> c]
\* "%Y-%m-%d"
DateItems ==
  <<Item("year", 4, ""), Item("lit", 0, "-"), Item("num", 2, ""), Item("lit", 0, "-"),
    Item("num", 2, "")>>
\* "%Y-%m-%d %H:%M:%S"
DateTimeItems ==
  DateItems \o <<Item("space", 0, " "), Item("num", 2, ""), Item("lit", 0, ":"),
                 Item("num", 2, ""), Item("lit", 0, ":"), Item("num", 2, "")>>

\* chrono format::parse: the items in order over the input.  A numeric item
\* skips leading white space and takes 1..max digits; the year after a sign
\* takes any number of digits; a literal must match; a space item takes any
\* white space; input left over is an error.  Yields the numbers read.
RECURSIVE parse_items(_, _, _)
parse_number(r, items, nums) ==
  IF r.n = 0 THEN Err("Invalid") ELSE parse_items(r.rest, Tail(items), Append(nums, r.v))
Negative(r) == [n |-> r.n, v |-> 0 - r.v, rest |-> r.rest]
parse_signed(s, items, nums) ==
  IF s # <<>> /\ Head(s) = "-"
  THEN parse_number(Negative(ScanDigits(Tail(s), Len(s), 0, 0)), items, nums)
  ELSE IF s # <<>> /\ Head(s) = "+"
  THEN parse_number(ScanDigits(Tail(s), Len(s), 0, 0), items, nums)
  ELSE parse_number(ScanDigits(s, Head(items).max, 0, 0), items, nums)
parse_items(s, items, nums) ==
  IF items = <<>> THEN (IF s = <<>> THEN Ok(nums) ELSE Err("TooLong"))
  ELSE CASE Head(items).kind = "num" ->
              parse_number(ScanDigits(TrimStart(s), Head(items).max, 0, 0), items, nums)
         [] Head(items).kind = "year" -> parse_signed(TrimStart(s), items, nums)
         [] Head(items).kind = "lit" ->
              IF s # <<>> /\ Head(s) = Head(items).c
              THEN parse_items(Tail(s), Tail(items), nums)
              ELSE Err("Invalid")
         [] Head(items).kind = "space" -> parse_items(TrimStart(s), Tail(items), nums)

IsLeap(y) == (y % 4 = 0 /\ y % 100 # 0) \/ y % 400 = 0
DaysIn(y, m) ==
  IF m = 2 THEN (IF IsLeap(y) THEN 29 ELSE 28)
  ELSE IF m \in {4, 6, 9, 11} THEN 30 ELSE 31
ValidDate(y, m, d) == m \in 1..12 /\ d \in 1..DaysIn(y, m)

\* Parsed::to_naive_date / to_naive_datetime_with_offset: the numbers read
\* must be a date of the calendar and a time of the day (second 60 allowed)
to_naive_date(p) ==
  IF IsErr(p) THEN p
  ELSE IF ~ValidDate(p.v[1], p.v[2], p.v[3]) THEN Err("OutOfRange")
  ELSE Ok(NaiveDate(p.v[1], p.v[2], p.v[3]))
to_naive_datetime(p) ==
  IF IsErr(p) THEN p
  ELSE IF ~(ValidDate(p.v[1], p.v[2], p.v[3]) /\ p.v[4] <= 23 /\ p.v[5] <= 59 /\ p.v[6] <= 60)
  THEN Err("OutOfRange")
  ELSE Ok(NaiveDateTime(NaiveDate(p.v[1], p.v[2], p.v[3]), p.v[4], p.v[5], p.v[6]))

\* NaiveDate::parse_from_str with the format %Y-%m-%d
str_to_date(s) == to_naive_date(parse_items(s, DateItems, <<>>))

\* str_to_datetime: the date-time format, else the date format at midnight
at_midnight(date) == IF IsErr(date) THEN date ELSE Ok(NaiveDateTime(date.v, 0, 0, 0))
\* str_to_datetime without the second attempt in the date format
or_date_full_only(full, s) == full
\* str_to_datetime with the second attempt reading only the first ten
\* characters, the rest of the text dropped
or_date_of_prefix(full, s) ==
  IF IsOk(full) THEN full
  ELSE at_midnight(str_to_date(SubSeq(s, 1, IF Len(s) < 10 THEN Len(s) ELSE 10)))
or_date(full, s) == IF IsOk(full) THEN full ELSE at_midnight(str_to_date(s))
str_to_datetime(s) == or_date(to_naive_datetime(parse_items(s, DateTimeItems, <<>>)), s)

\* the result of an adapter: the value, or a custom serde error
date_result(r, msg) == IF IsErr(r) THEN JsonError(msg) ELSE r
some_result(r) == IF IsErr(r) THEN r ELSE Ok(Some(r.v))

DateTimeSerde_deserialize(j) ==
  IF j.j # "str" THEN JsonError("invalid type")
  ELSE date_result(str_to_datetime(j.v), "DateTime parse error")

DateTimeSerdeOpt_deserialize(j) ==
  IF j.j = "null" THEN Ok(None)
  ELSE IF j.j # "str" THEN JsonError("invalid type")
  ELSE some_result(date_result(str_to_datetime(j.v), "DateTime parse error"))

DateSerde_deserialize(j) ==
  IF j.j # "str" THEN JsonError("invalid type")
  ELSE date_result(str_to_date(j.v), "Date parse error")

(***************************************************************************)
(* Response enums (api/enums.rs)                                           *)
(***************************************************************************)
\* the tokens a string enum accepts, in declaration order
Tokens(enum) ==
  CASE enum = "SiteStatus" ->
         <<<<"A","c","t","i","v","e">>, <<"P","e","n","d","i","n","g">>, <<"P","e","n","d","i","n","g","C","o","m","m","u","n","i","c","a","t","i","o","n">>, <<"D","i","s","a","b","l","e","d">>, <<"A","l","l">>>>
    [] enum = "legacy::SiteStatus" -> <<<<"A","c","t","i","v","e">>, <<"P","e","n","d","i","n","g">>, <<"D","i","s","a","b","l","e","d">>, <<"A","l","l">>>>
    [] enum = "TimeUnit" ->
         <<<<"Q","U","A","R","T","E","R","_","O","F","_","A","N","_","H","O","U","R">>, <<"H","O","U","R">>, <<"D","A","Y">>, <<"W","E","E","K">>, <<"M","O","N","T","H">>, <<"Y","E","A","R">>>>
    [] enum = "MeterType" ->
         <<<<"P","r","o","d","u","c","t","i","o","n">>, <<"C","o","n","s","u","m","p","t","i","o","n">>, <<"S","e","l","f","C","o","n","s","u","m","p","t","i","o","n">>, <<"F","e","e","d","I","n">>, <<"P","u","r","c","h","a","s","e","d">>>>
    [] enum = "MeterForm" -> <<<<"p","h","y","s","i","c","a","l">>, <<"v","i","r","t","u","a","l">>>>
    [] enum = "InverterMode" ->
         <<<<"O","F","F">>, <<"S","L","E","E","P","I","N","G">>, <<"S","T","A","R","T","I","N","G">>, <<"M","P","P","T">>, <<"T","H","R","O","T","T","L","E","D">>, <<"S","H","U","T","T","I","N","G","_","D","O","W","N">>,
           <<"F","A","U","L","T">>, <<"S","T","A","N","D","B","Y">>, <<"L","O","C","K","E","D","_","S","T","D","B","Y">>, <<"L","O","C","K","E","D","_","F","I","R","E","_","F","I","G","H","T","E","R","S">>,
           <<"L","O","C","K","E","D","_","F","O","R","C","E","_","S","H","U","T","D","O","W","N">>, <<"L","O","C","K","E","D","_","C","O","M","M","_","T","I","M","E","O","U","T">>, <<"L","O","C","K","E","D","_","I","N","V","_","T","R","I","P">>,
           <<"L","O","C","K","E","D","_","I","N","V","_","A","R","C","_","D","E","T","E","C","T","E","D">>, <<"L","O","C","K","E","D","_","D","G">>, <<"L","O","C","K","E","D","_","P","H","A","S","E","_","B","A","L","A","N","C","E","R">>,
           <<"L","O","C","K","E","D","_","P","R","E","_","C","O","M","M","I","S","S","I","O","N","I","N","G">>, <<"L","O","C","K","E","D","_","I","N","T","E","R","N","A","L">>>>
    [] enum = "EnergyUnit" -> <<<<"W","h">>>>
    [] enum = "PowerUnit" -> <<<<"W">>, <<"k","W">>>>
    [] enum = "Measurer" -> <<<<"I","N","V","E","R","T","E","R">>>>
    [] enum = "PowerFlowElement" -> <<<<"G","R","I","D">>, <<"L","o","a","d">>, <<"P","V">>, <<"S","t","o","r","a","g","e">>>>
    [] enum = "PowerFlowElementStatus" -> <<<<"A","c","t","i","v","e">>, <<"I","d","l","e">>, <<"I","n","a","c","t","i","v","e">>, <<"D","i","s","a","b","l","e","d">>>>
    [] enum = "GasEmissionUnit" -> <<<<"k","g">>, <<"l","b">>>>
    [] enum = "EquipmentCommunicationMethod" -> <<<<"E","T","H","E","R","N","E","T">>>>
    [] enum = "SensorType" -> <<<<"I","R","R","A","D","I","A","N","C","E">>, <<"T","E","M","P","E","R","A","T","U","R","E">>>>
    [] enum = "SensorMeasurement" ->
         <<<<"S","e","n","s","o","r","G","l","o","b","a","l","H","o","r","i","z","o","n","t","a","l","I","r","r","a","d","i","a","n","c","e">>, <<"S","e","n","s","o","r","D","i","f","f","u","s","e","d","I","r","r","a","d","i","a","n","c","e">>,
           <<"S","e","n","s","o","r","A","m","b","i","e","n","t","T","e","m","p","e","r","a","t","u","r","e">>>>

\* the Rust identifiers of the unit variants of the enums that derive both
\* Serialize and Deserialize, in declaration order
VariantIdents(enum) ==
  CASE enum = "TimeUnit" ->
         <<<<"Q","u","a","r","t","e","r","O","f","A","n","H","o","u","r">>, <<"H","o","u","r">>, <<"D","a","y">>,
           <<"W","e","e","k">>, <<"M","o","n","t","h">>, <<"Y","e","a","r">>>>
    [] enum = "MeterType" ->
         <<<<"P","r","o","d","u","c","t","i","o","n">>, <<"C","o","n","s","u","m","p","t","i","o","n">>,
           <<"S","e","l","f","C","o","n","s","u","m","p","t","i","o","n">>, <<"F","e","e","d","I","n">>,
           <<"P","u","r","c","h","a","s","e","d">>>>
    [] enum = "EnergyUnit" -> <<<<"W","h">>>>
    [] enum = "PowerUnit" -> <<<<"W">>, <<"K","w">>>>

\* enums with an #[serde(untagged)] Other(String) variant, the open-ended
\* SensorType among them left out
HasOther_without_SensorType(enum) ==
  enum \in {"EnergyUnit", "PowerUnit", "Measurer", "EquipmentCommunicationMethod",
            "SensorMeasurement"}

\* enums with an #[serde(untagged)] Other(String) variant
HasOther(enum) ==
  enum \in {"EnergyUnit", "PowerUnit", "Measurer", "EquipmentCommunicationMethod",
            "SensorType", "SensorMeasurement"}

\* Deserialize_repr enums and their discriminants
IsRepr(enum) == enum \in {"OperationMode", "BatteryState"}
Discriminants(enum) == IF enum = "OperationMode" THEN 0..2 ELSE 0..4

EnumVariant(enum, i) == [enum |-> enum, index |-> i]
EnumOther(enum, s) == [enum |-> enum, other |-> s]

\* #[derive(Serialize)] of an enum value: the name of a unit variant; the
\* string itself for the untagged newtype variant Other(String)
serialize_enum(x) == IF "other" \in DOMAIN x THEN x.other ELSE VariantName(x)

\* DeserializeEnum with a closed enum falling back to its first variant for a
\* value it does not know
DeserializeEnum_default_variant(enum, j) ==
  IF IsRepr(enum)
  THEN (IF j.j = "num" /\ j.v \in 0..255
        THEN (IF j.v \in Discriminants(enum) THEN Ok(EnumVariant(enum, j.v))
              ELSE Ok(EnumVariant(enum, 0)))
        ELSE JsonError("invalid type"))
  ELSE IF j.j # "str"
  THEN (IF HasOther(enum) THEN JsonError("data did not match any variant")
        ELSE JsonError("invalid type"))
  ELSE IF \E i \in 1..Len(Tokens(enum)) : Tokens(enum)[i] = j.v
  THEN Ok(EnumVariant(enum, CHOOSE i \in 1..Len(Tokens(enum)) : Tokens(enum)[i] = j.v))
  ELSE IF HasOther(enum) THEN Ok(EnumOther(enum, j.v))
  ELSE Ok(EnumVariant(enum, 1))

DeserializeEnum(enum, j) ==
  IF IsRepr(enum)
  THEN (IF j.j = "num" /\ j.v \in 0..255
        THEN (IF j.v \in Discriminants(enum) THEN Ok(EnumVariant(enum, j.v))
              ELSE JsonError("invalid value"))
        ELSE JsonError("invalid type"))
  ELSE IF j.j # "str"
  THEN (IF HasOther(enum) THEN JsonError("data did not match any variant")
        ELSE JsonError("invalid type"))
  ELSE IF \E i \in 1..Len(Tokens(enum)) : Tokens(enum)[i] = j.v
  THEN Ok(EnumVariant(enum, CHOOSE i \in 1..Len(Tokens(enum)) : Tokens(enum)[i] = j.v))
  ELSE IF HasOther(enum) THEN Ok(EnumOther(enum, j.v))
  ELSE JsonError("unknown variant")

(***************************************************************************)
(* Response types (api/response.rs, api/response/*.rs): each struct is the *)
(* sequence of its fields: Rust name, accepted JSON keys (rename / alias / *)
(* rename_all applied), type, and the with adapter if any.               *)
(***************************************************************************)
TString == [k |-> "String"]
TUint(bits) == [k |-> "Uint", bits |-> bits]
TInt(bits) == [k |-> "Int", bits |-> bits]
TF64 == [k |-> "F64"]
TBool == [k |-> "Bool"]
TNaiveDateTime == [k |-> "NaiveDateTime"]
TNaiveDate == [k |-> "NaiveDate"]
TOption(t) == [k |-> "Option", of |-> t]
TVec(t) == [k |-> "Vec", of |-> t]
TList(t) == [k |-> "List", of |-> t]
TStruct(mod, name) == [k |-> "Struct", mod |-> mod, name |-> name]
TEnum(name) == [k |-> "Enum", name |-> name]

F(name, keys, ty, with) == [name |-> name, keys |-> keys, ty |-> ty, with |-> with]

\* List<T> with the alias "batteries" of the list field left out
Schema_List_without_batteries(t) ==
  <<F("count", {"count", "total", "batteryCount"}, TOption(TUint(64)), ""),
    F("list", {"list", "data", "site", "siteEnergyList", "timeFrameEnergyList",
               "telemetries"}, TVec(t), "")>>

\* api/response.rs: List<T>
Schema_List(t) ==
  <<F("count", {"count", "total", "batteryCount"}, TOption(TUint(64)), ""),
    F("list", {"list", "data", "site", "siteEnergyList", "timeFrameEnergyList",
               "telemetries", "batteries"}, TVec(t), "")>>

\* api/response/version.rs
Schema_version(name) ==
  CASE name = "Spec" ->
         <<F("release", {"release"}, TString, "")>>
    [] name = "CurrentTop" ->
         <<F("version", {"version"}, TStruct("version", "Spec"), "")>>
    [] name = "SupportedTop" ->
         <<F("supported", {"supported"}, TVec(TStruct("version", "Spec")), "")>>

\* api/response/accounts.rs
Schema_accounts(name) ==
  CASE name = "Account" ->
         <<F("id", {"id"}, TUint(32), ""),
           F("name", {"name"}, TString, ""),
           F("location", {"location"}, TStruct("site", "Location"), ""),
           F("company_website", {"companyWebSite"}, TString, ""),
           F("contact_person", {"contactPerson"}, TString, ""),
           F("email", {"email"}, TString, ""),
           F("phone_number", {"phoneNumber"}, TString, ""),
           F("fax_number", {"faxNumber"}, TString, ""),
           F("notes", {"notes"}, TString, ""),
           F("parent_id", {"parentId"}, TUint(32), ""),
           F("uris", {"uris"}, TVec(TString), "")>>
    [] name = "ListTop" ->
         <<F("accounts", {"accounts"}, TList(TStruct("accounts", "Account")), "")>>

\* api/response/site.rs
Schema_site(name) ==
  CASE name = "Location" ->
         <<F("country", {"country"}, TString, ""),
           F("city", {"city"}, TString, ""),
           F("address", {"address"}, TString, ""),
           F("address2", {"address2"}, TOption(TString), ""),
           F("zip", {"zip"}, TString, ""),
           F("time_zone", {"timeZone"}, TString, ""),
           F("country_code", {"countryCode"}, TString, "")>>
    [] name = "Module" ->
         <<F("manufacturer_name", {"manufacturerName"}, TString, ""),
           F("model_name", {"modelName"}, TString, ""),
           F("maximum_power", {"maximumPower"}, TF64, ""),
           F("temperature_coef", {"temperatureCoef"}, TOption(TF64), "")>>
    [] name = "Uris" ->
         <<F("details", {"DETAILS"}, TString, ""),
           F("data_period", {"DATA_PERIOD"}, TString, ""),
           F("overview", {"OVERVIEW"}, TString, "")>>
    [] name = "PublicSettings" ->
         <<F("name", {"name"}, TOption(TString), ""),
           F("is_public", {"isPublic"}, TOption(TBool), "")>>
    [] name = "Details" ->
         <<F("id", {"id"}, TUint(64), ""),
           F("name", {"name"}, TString, ""),
           F("account_id", {"accountId"}, TUint(64), ""),
           F("status", {"status"}, TEnum("SiteStatus"), ""),
           F("peak_power", {"peakPower"}, TF64, ""),
           F("last_update_time", {"lastUpdateTime"}, TOption(TNaiveDateTime), "DateTimeSerdeOpt"),
           F("currency", {"currency"}, TOption(TString), ""),
           F("installation_date", {"installationDate"}, TNaiveDateTime, "DateTimeSerde"),
           F("pto_date", {"ptoDate"}, TOption(TNaiveDateTime), "DateTimeSerdeOpt"),
           F("notes", {"notes"}, TOption(TString), ""),
           F("site_type", {"type"}, TString, ""),
           F("location", {"location"}, TStruct("site", "Location"), ""),
           F("primary_module", {"primaryModule"}, TStruct("site", "Module"), ""),
           F("alert_quantity", {"alertQuantity"}, TOption(TUint(32)), ""),
           F("alert_severity", {"alertSeverity"}, TOption(TString), ""),
           F("uris", {"uris"}, TStruct("site", "Uris"), ""),
           F("public_settings", {"publicSettings"}, TStruct("site", "PublicSettings"), "")>>
    [] name = "ListTop" ->
         <<F("sites", {"sites"}, TList(TStruct("site", "Details")), "")>>
    [] name = "DetailsTop" ->
         <<F("details", {"details"}, TStruct("site", "Details"), "")>>
    [] name = "DataPeriod" ->
         <<F("start_date", {"startDate"}, TOption(TNaiveDateTime), "DateTimeSerdeOpt"),
           F("end_date", {"endDate"}, TOption(TNaiveDateTime), "DateTimeSerdeOpt")>>
    [] name = "DataPeriodTop" ->
         <<F("data_period", {"dataPeriod"}, TStruct("site", "DataPeriod"), "")>>
    [] name = "SiteDataPeriod" ->
         <<F("site_id", {"siteId"}, TUint(64), ""),
           F("data_period", {"dataPeriod"}, TStruct("site", "DataPeriod"), "")>>
    [] name = "DataPeriodBulkTop" ->
         <<F("date_period_list", {"datePeriodList"}, TList(TStruct("site", "SiteDataPeriod")), "")>>
    [] name = "DateValue" ->
         <<F("date", {"date"}, TNaiveDateTime, "DateTimeSerde"),
           F("value", {"value"}, TOption(TF64), "")>>
    [] name = "Energy" ->
         <<F("time_unit", {"timeUnit"}, TEnum("TimeUnit"), ""),
           F("unit", {"unit"}, TEnum("EnergyUnit"), ""),
           F("values", {"values"}, TVec(TStruct("site", "DateValue")), "")>>
    [] name = "EnergyTop" ->
         <<F("energy", {"energy"}, TStruct("site", "Energy"), "")>>
    [] name = "EnergyValues" ->
         <<F("values", {"values"}, TVec(TStruct("site", "DateValue")), "")>>
    [] name = "SiteEnergyValues" ->
         <<F("site_id", {"siteId"}, TUint(64), ""),
           F("energy_values", {"energyValues"}, TStruct("site", "EnergyValues"), "")>>
    [] name = "EnergyBulkList" ->
         <<F("time_unit", {"timeUnit"}, TEnum("TimeUnit"), ""),
           F("unit", {"unit"}, TEnum("EnergyUnit"), ""),
           F("count", {"count"}, TUint(64), ""),
           F("site_energy_list", {"siteEnergyList"}, TVec(TStruct("site", "SiteEnergyValues")), "")>>
    [] name = "EnergyBulkTop" ->
         <<F("sites_energy", {"sitesEnergy"}, TStruct("site", "EnergyBulkList"), "")>>
    [] name = "LifetimeEnergy" ->
         <<F("date", {"date"}, TNaiveDate, "DateSerde"),
           F("energy", {"energy"}, TOption(TF64), ""),
           F("unit", {"unit"}, TEnum("EnergyUnit"), "")>>
    [] name = "TimeframeEnergy" ->
         <<F("energy", {"energy"}, TOption(TF64), ""),
           F("unit", {"unit"}, TEnum("EnergyUnit"), ""),
           F("measured_by", {"measuredBy"}, TOption(TEnum("Measurer")), ""),
           F("start_lifetime_energy", {"startLifetimeEnergy"}, TStruct("site", "LifetimeEnergy"), ""),
           F("end_lifetime_energy", {"endLifetimeEnergy"}, TStruct("site", "LifetimeEnergy"), "")>>
    [] name = "TimeframeEnergyTop" ->
         <<F("timeframe_energy", {"timeFrameEnergy"}, TStruct("site", "TimeframeEnergy"), "")>>
    [] name = "SiteTimeframeEnergy" ->
         <<F("site_id", {"siteId"}, TUint(64), ""),
           F("timeframe_energy", {"timeFrameEnergy"}, TStruct("site", "TimeframeEnergy"), "")>>
    [] name = "TimeframeEnergyBulkTop" ->
         <<F("timeframe_energy_list", {"timeFrameEnergyList"}, TList(TStruct("site", "SiteTimeframeEnergy")), "")>>
    [] name = "Power" ->
         <<F("time_unit", {"timeUnit"}, TEnum("TimeUnit"), ""),
           F("unit", {"unit"}, TEnum("PowerUnit"), ""),
           F("values", {"values"}, TVec(TStruct("site", "DateValue")), "")>>
    [] name = "PowerTop" ->
         <<F("power", {"power"}, TStruct("site", "Power"), "")>>
    [] name = "SitePowerEnergyValues" ->
         <<F("site_id", {"siteId"}, TUint(64), ""),
           F("power_data_value_series", {"powerDataValueSeries"}, TStruct("site", "EnergyValues"), "")>>
    [] name = "PowerValueList" ->
         <<F("time_unit", {"timeUnit"}, TEnum("TimeUnit"), ""),
           F("unit", {"unit"}, TEnum("PowerUnit"), ""),
           F("count", {"count"}, TUint(64), ""),
           F("site_energy_list", {"siteEnergyList"}, TVec(TStruct("site", "SitePowerEnergyValues")), "")>>
    [] name = "PowerBulkTop" ->
         <<F("power_date_values_list", {"powerDateValuesList"}, TStruct("site", "PowerValueList"), "")>>
    [] name = "LifetimeData" ->
         <<F("energy", {"energy"}, TF64, ""),
           F("revenue", {"revenue"}, TF64, "")>>
    [] name = "EnergyData" ->
         <<F("energy", {"energy"}, TF64, "")>>
    [] name = "PowerData" ->
         <<F("power", {"power"}, TF64, "")>>
    [] name = "Overview" ->
         <<F("last_update_time", {"lastUpdateTime"}, TNaiveDateTime, "DateTimeSerde"),
           F("lifetime_data", {"lifeTimeData"}, TStruct("site", "LifetimeData"), ""),
           F("last_year_data", {"lastYearData"}, TStruct("site", "EnergyData"), ""),
           F("last_month_data", {"lastMonthData"}, TStruct("site", "EnergyData"), ""),
           F("last_day_data", {"lastDayData"}, TStruct("site", "EnergyData"), ""),
           F("current_power", {"currentPower"}, TStruct("site", "PowerData"), ""),
           F("measured_by", {"measuredBy"}, TOption(TEnum("Measurer")), "")>>
    [] name = "OverviewTop" ->
         <<F("overview", {"overview"}, TStruct("site", "Overview"), "")>>
    [] name = "SiteOverview" ->
         <<F("site_id", {"siteId"}, TUint(64), ""),
           F("site_overview", {"siteOverview"}, TStruct("site", "Overview"), "")>>
    [] name = "OverviewBulkTop" ->
         <<F("sites_overviews", {"sitesOverviews"}, TList(TStruct("site", "SiteOverview")), "")>>
    [] name = "MeterValues" ->
         <<F("meter_type", {"type"}, TEnum("MeterType"), ""),
           F("values", {"values"}, TVec(TStruct("site", "DateValue")), "")>>
    [] name = "PowerDetails" ->
         <<F("time_unit", {"timeUnit"}, TEnum("TimeUnit"), ""),
           F("unit", {"unit"}, TEnum("PowerUnit"), ""),
           F("meters", {"meters"}, TVec(TStruct("site", "MeterValues")), "")>>
    [] name = "PowerDetailsTop" ->
         <<F("power_details", {"powerDetails"}, TStruct("site", "PowerDetails"), "")>>
    [] name = "EnergyDetails" ->
         <<F("time_unit", {"timeUnit"}, TEnum("TimeUnit"), ""),
           F("unit", {"unit"}, TEnum("EnergyUnit"), ""),
           F("meters", {"meters"}, TVec(TStruct("site", "MeterValues")), "")>>
    [] name = "EnergyDetailsTop" ->
         <<F("energy_details", {"energyDetails"}, TStruct("site", "EnergyDetails"), "")>>
    [] name = "PowerConnection" ->
         <<F("from", {"from"}, TEnum("PowerFlowElement"), ""),
           F("to", {"to"}, TEnum("PowerFlowElement"), "")>>
    [] name = "PowerFlowEntry" ->
         <<F("status", {"status"}, TEnum("PowerFlowElementStatus"), ""),
           F("current_power", {"currentPower"}, TOption(TF64), "")>>
    [] name = "StoragePowerFlowEntry" ->
         <<F("status", {"status"}, TEnum("PowerFlowElementStatus"), ""),
           F("current_power", {"currentPower"}, TOption(TF64), ""),
           F("charge_level", {"chargeLevel"}, TUint(8), ""),
           F("critical", {"critical"}, TBool, ""),
           F("time_left", {"timeLeft"}, TOption(TString), "")>>
    [] name = "CurrentPowerFlow" ->
         <<F("unit", {"unit"}, TEnum("PowerUnit"), ""),
           F("connections", {"connections"}, TVec(TStruct("site", "PowerConnection")), ""),
           F("grid", {"GRID"}, TStruct("site", "PowerFlowEntry"), ""),
           F("load", {"LOAD"}, TStruct("site", "PowerFlowEntry"), ""),
           F("pv", {"PV"}, TOption(TStruct("site", "PowerFlowEntry")), ""),
           F("storage", {"STORAGE"}, TOption(TStruct("site", "StoragePowerFlowEntry")), "")>>
    [] name = "CurrentPowerFlowTop" ->
         <<F("site_current_power_flow", {"siteCurrentPowerFlow"}, TStruct("site", "CurrentPowerFlow"), "")>>
    [] name = "BatteryTelemetry" ->
         <<F("timestamp", {"timeStamp"}, TNaiveDateTime, "DateTimeSerde"),
           F("power", {"power"}, TInt(32), ""),
           F("battery_state", {"batteryState"}, TEnum("BatteryState"), ""),
           F("lifetime_energy_charged", {"lifeTimeEnergyCharged"}, TUint(32), ""),
           F("lifetime_energy_discharged", {"lifeTimeEnergyDischarged"}, TUint(32), ""),
           F("full_pack_energy_available", {"fullPackEnergyAvailable"}, TUint(32), ""),
           F("internal_temp", {"internalTemp"}, TUint(32), ""),
           F("ac_grid_charging", {"ACGridCharging"}, TUint(32), ""),
           F("state_of_charge", {"stateOfCharge"}, TUint(8), "")>>
    [] name = "StorageBattery" ->
         <<F("serial_number", {"serialNumber"}, TString, ""),
           F("nameplate", {"nameplate"}, TUint(32), ""),
           F("model_number", {"modelNumber"}, TString, ""),
           F("telemetry_count", {"telemetryCount"}, TUint(64), ""),
           F("telemetries", {"telemetries"}, TVec(TStruct("site", "BatteryTelemetry")), "")>>
    [] name = "StorageDataTop" ->
         <<F("storage_data", {"storageData"}, TList(TStruct("site", "StorageBattery")), "")>>
    [] name = "GasEmissionsSaved" ->
         <<F("units", {"units"}, TEnum("GasEmissionUnit"), ""),
           F("co2", {"co2"}, TF64, ""),
           F("so2", {"so2"}, TF64, ""),
           F("nox", {"nox"}, TF64, "")>>
    [] name = "EnvBenefits" ->
         <<F("gas_emission_saved", {"gasEmissionSaved"}, TStruct("site", "GasEmissionsSaved"), ""),
           F("trees_planted", {"treesPlanted"}, TF64, ""),
           F("light_bulbs", {"lightBulbs"}, TF64, "")>>
    [] name = "EnvBenefitsTop" ->
         <<F("env_benefits", {"envBenefits"}, TStruct("site", "EnvBenefits"), "")>>
    [] name = "Inverter" ->
         <<F("name", {"name"}, TString, ""),
           F("manufacturer", {"manufacturer"}, TString, ""),
           F("model", {"model"}, TString, ""),
           F("cpu_version", {"cpuVersion"}, TString, ""),
           F("dsp1_version", {"dsp1Version"}, TOption(TString), ""),
           F("dsp2_version", {"dsp2Version"}, TOption(TString), ""),
           F("communication_method", {"communicationMethod"}, TEnum("EquipmentCommunicationMethod"), ""),
           F("serial_number", {"SN"}, TString, ""),
           F("connected_optimizers", {"connectedOptimizers"}, TUint(32), "")>>
    [] name = "Meter" ->
         <<F("name", {"name"}, TString, ""),
           F("manufacturer", {"manufacturer"}, TOption(TString), ""),
           F("model", {"model"}, TOption(TString), ""),
           F("serial_number", {"SN"}, TOption(TString), ""),
           F("meter_type", {"type"}, TEnum("MeterType"), ""),
           F("firmware_version", {"firmwareVersion"}, TOption(TString), ""),
           F("connected_to", {"connectedTo"}, TOption(TString), ""),
           F("connected_solaredge_device_sn", {"connectedSolaredgeDeviceSN"}, TOption(TString), ""),
           F("form", {"form"}, TEnum("MeterForm"), "")>>
    [] name = "Sensor" ->
         <<F("connected_solaredge_device_sn", {"connectedSolaredgeDeviceSN"}, TString, ""),
           F("id", {"id"}, TString, ""),
           F("connected_to", {"connectedTo"}, TString, ""),
           F("category", {"category"}, TEnum("SensorType"), ""),
           F("sensor_type", {"type"}, TString, "")>>
    [] name = "Gateway" ->
         <<F("name", {"name"}, TString, ""),
           F("serial_number", {"SN"}, TString, ""),
           F("firmware_version", {"firmwareVersion"}, TString, "")>>
    [] name = "Battery" ->
         <<F("name", {"name"}, TString, ""),
           F("serial_number", {"SN"}, TString, ""),
           F("manufacturer", {"manufacturer"}, TString, ""),
           F("model", {"model"}, TString, ""),
           F("nameplate_capacity", {"nameplateCapacity"}, TF64, ""),
           F("firmware_version", {"firmwareVersion"}, TString, ""),
           F("connected_to", {"connectedTo"}, TString, ""),
           F("connected_inverter_sn", {"connectedInverterSn"}, TString, "")>>
    [] name = "Inventory" ->
         <<F("inverters", {"inverters"}, TVec(TStruct("site", "Inverter")), ""),
           F("meters", {"meters"}, TVec(TStruct("site", "Meter")), ""),
           F("sensors", {"sensors"}, TVec(TStruct("site", "Sensor")), ""),
           F("gateways", {"gateways"}, TVec(TStruct("site", "Gateway")), ""),
           F("batteries", {"batteries"}, TVec(TStruct("site", "Battery")), "")>>
    [] name = "InventoryTop" ->
         <<F("inventory", {"Inventory"}, TStruct("site", "Inventory"), "")>>
    [] name = "MeterDetail" ->
         <<F("meter_serial_number", {"meterSerialNumber"}, TString, ""),
           F("connected_solaredge_device_sn", {"connectedSolaredgeDeviceSN"}, TString, ""),
           F("model", {"model"}, TString, ""),
           F("meter_type", {"meterType"}, TEnum("MeterType"), ""),
           F("values", {"values"}, TVec(TStruct("site", "DateValue")), "")>>
    [] name = "Meters" ->
         <<F("time_unit", {"timeUnit"}, TEnum("TimeUnit"), ""),
           F("unit", {"unit"}, TEnum("EnergyUnit"), ""),
           F("meters", {"meters"}, TVec(TStruct("site", "MeterDetail")), "")>>
    [] name = "MetersTop" ->
         <<F("meter_energy_details", {"meterEnergyDetails"}, TStruct("site", "Meters"), "")>>
    [] name = "SensorTelemetry" ->
         <<F("date", {"date"}, TNaiveDateTime, "DateTimeSerde"),
           F("ambient_temperature", {"ambientTemperature"}, TOption(TF64), ""),
           F("module_temperature", {"moduleTemperature"}, TOption(TF64), ""),
           F("wind_speed", {"windSpeed"}, TOption(TF64), "")>>
    [] name = "SensorData" ->
         <<F("connected_to", {"connectedTo"}, TString, ""),
           F("count", {"count"}, TUint(64), ""),
           F("telemetries", {"telemetries"}, TVec(TStruct("site", "SensorTelemetry")), "")>>
    [] name = "SensorDataTop" ->
         <<F("site_sensors", {"siteSensors"}, TList(TStruct("site", "SensorData")), "")>>

\* api/response/equipment.rs
Schema_equipment(name) ==
  CASE name = "Sensor" ->
         <<F("name", {"name"}, TString, ""),
           F("measurement", {"measurement"}, TEnum("SensorMeasurement"), ""),
           F("typ", {"type"}, TEnum("SensorType"), "")>>
    [] name = "SensorSummary" ->
         <<F("connected_to", {"connectedTo"}, TString, ""),
           F("count", {"count"}, TUint(64), ""),
           F("sensors", {"sensors"}, TVec(TStruct("equipment", "Sensor")), "")>>
    [] name = "SensorsTop" ->
         <<F("site_sensors", {"SiteSensors"}, TList(TStruct("equipment", "SensorSummary")), "")>>
    [] name = "Reporter" ->
         <<F("name", {"name"}, TString, ""),
           F("manufacturer", {"manufacturer"}, TString, ""),
           F("model", {"model"}, TString, ""),
           F("serial_number", {"serialNumber"}, TString, ""),
           F("kw_p_dc", {"kWpDC"}, TOption(TF64), "")>>
    [] name = "ListTop" ->
         <<F("reporters", {"reporters"}, TList(TStruct("equipment", "Reporter")), "")>>
    [] name = "LData" ->
         <<F("ac_current", {"acCurrent"}, TF64, ""),
           F("ac_voltage", {"acVoltage"}, TF64, ""),
           F("ac_frequency", {"acFrequency"}, TF64, ""),
           F("apparent_power", {"apparentPower"}, TF64, ""),
           F("active_power", {"activePower"}, TF64, ""),
           F("reactive_power", {"reactivePower"}, TF64, ""),
           F("cos_phi", {"cosPhi"}, TF64, "")>>
    [] name = "Telemetry" ->
         <<F("date", {"date"}, TNaiveDateTime, "DateTimeSerde"),
           F("total_active_power", {"totalActivePower"}, TF64, ""),
           F("dc_voltage", {"dcVoltage"}, TOption(TF64), ""),
           F("ground_fault_resistance", {"groundFaultResistance"}, TOption(TF64), ""),
           F("power_limit", {"powerLimit"}, TF64, ""),
           F("lifetime_energy", {"lifetimeEnergy"}, TOption(TF64), ""),
           F("total_energy", {"totalEnergy"}, TF64, ""),
           F("temperature", {"temperature"}, TF64, ""),
           F("inverter_mode", {"inverterMode"}, TEnum("InverterMode"), ""),
           F("operation_mode", {"operationMode"}, TEnum("OperationMode"), ""),
           F("v_l1_to_n", {"vL1ToN"}, TOption(TF64), ""),
           F("v_l2_to_n", {"vL2ToN"}, TOption(TF64), ""),
           F("v_l1_to_2", {"vL1To2"}, TOption(TF64), ""),
           F("v_l2_to_3", {"vL2To3"}, TOption(TF64), ""),
           F("v_l3_to_1", {"vL3To1"}, TOption(TF64), ""),
           F("l1_data", {"L1Data"}, TStruct("equipment", "LData"), ""),
           F("l2_data", {"L2Data"}, TOption(TStruct("equipment", "LData")), ""),
           F("l3_data", {"L3Data"}, TOption(TStruct("equipment", "LData")), "")>>
    [] name = "DataTop" ->
         <<F("data", {"data"}, TList(TStruct("equipment", "Telemetry")), "")>>
    [] name = "EquipmentChangelog" ->
         <<F("serial_number", {"serialNumber"}, TString, ""),
           F("part_number", {"partNumber"}, TString, ""),
           F("date", {"date"}, TNaiveDate, "DateSerde")>>
    [] name = "EquipmentChangelogTop" ->
         <<F("changelog", {"ChangeLog"}, TList(TStruct("equipment", "EquipmentChangelog")), "")>>

\* solaredge/src/api/response.rs: the response types of the first client
Schema_legacy(name) ==
  CASE name = "VersionSpec" ->
         <<F("release", {"release"}, TString, "")>>
    [] name = "VersionCurrentTop" ->
         <<F("version", {"version"}, TStruct("legacy", "VersionSpec"), "")>>
    [] name = "VersionSupportedTop" ->
         <<F("supported", {"supported"}, TVec(TStruct("legacy", "VersionSpec")), "")>>
    [] name = "Location" ->
         <<F("country", {"country"}, TString, ""),
           F("city", {"city"}, TString, ""),
           F("address", {"address"}, TString, ""),
           F("address2", {"address2"}, TString, ""),
           F("zip", {"zip"}, TString, ""),
           F("time_zone", {"timeZone"}, TString, ""),
           F("country_code", {"countryCode"}, TString, "")>>
    [] name = "Module" ->
         <<F("manufacturer_name", {"manufacturerName"}, TString, ""),
           F("model_name", {"modelName"}, TString, ""),
           F("maximum_power", {"maximumPower"}, TF64, ""),
           F("temperature_coef", {"temperatureCoef"}, TF64, "")>>
    [] name = "SiteUris" ->
         <<F("details", {"DETAILS"}, TString, ""),
           F("data_period", {"DATA_PERIOD"}, TString, ""),
           F("overview", {"OVERVIEW"}, TString, "")>>
    [] name = "PublicSettings" ->
         <<F("name", {"name"}, TOption(TString), ""),
           F("is_public", {"isPublic"}, TBool, "")>>
    [] name = "Site" ->
         <<F("id", {"id"}, TUint(64), ""),
           F("name", {"name"}, TString, ""),
           F("account_id", {"accountId"}, TUint(64), ""),
           F("status", {"status"}, TEnum("legacy::SiteStatus"), ""),
           F("peak_power", {"peakPower"}, TF64, ""),
           F("last_update_time", {"lastUpdateTime"}, TNaiveDateTime, "DateTimeSerde"),
           F("currency", {"currency"}, TOption(TString), ""),
           F("installation_date", {"installationDate"}, TNaiveDateTime, "DateTimeSerde"),
           F("pto_date", {"ptoDate"}, TOption(TNaiveDateTime), "DateTimeSerdeOpt"),
           F("notes", {"notes"}, TString, ""),
           F("typ", {"type"}, TString, ""),
           F("location", {"location"}, TStruct("legacy", "Location"), ""),
           F("primary_module", {"primaryModule"}, TStruct("legacy", "Module"), ""),
           F("alert_quantity", {"alertQuantity"}, TOption(TUint(32)), ""),
           F("alert_severity", {"alertSeverity"}, TOption(TString), ""),
           F("uris", {"uris"}, TStruct("legacy", "SiteUris"), ""),
           F("public_settings", {"publicSettings"}, TStruct("legacy", "PublicSettings"), "")>>
    [] name = "SitesListSites" ->
         <<F("count", {"count"}, TUint(64), ""),
           F("site", {"site"}, TVec(TStruct("legacy", "Site")), "")>>
    [] name = "SitesListTop" ->
         <<F("sites", {"sites"}, TStruct("legacy", "SitesListSites"), "")>>

Schema(ty) ==
  CASE ty.k = "List" -> Schema_List(ty.of)
    [] ty.k = "Struct" /\ ty.mod = "version" -> Schema_version(ty.name)
    [] ty.k = "Struct" /\ ty.mod = "accounts" -> Schema_accounts(ty.name)
    [] ty.k = "Struct" /\ ty.mod = "site" -> Schema_site(ty.name)
    [] ty.k = "Struct" /\ ty.mod = "equipment" -> Schema_equipment(ty.name)
    [] ty.k = "Struct" /\ ty.mod = "legacy" -> Schema_legacy(ty.name)

(***************************************************************************)
(* The derived Deserialize implementations over serde_json                 *)
(***************************************************************************)
InRange(n, lo, bits) == n >= lo /\ (bits >= 31 \/ n < 2 ^ bits)

RECURSIVE Deserialize(_, _)

\* one field from its JSON value: through the with-adapter if it has one
DeserializeField(f, j) ==
  CASE f.with = "DateTimeSerde" -> DateTimeSerde_deserialize(j)
    [] f.with = "DateTimeSerdeOpt" -> DateTimeSerdeOpt_deserialize(j)
    [] f.with = "DateSerde" -> DateSerde_deserialize(j)
    [] OTHER -> Deserialize(f.ty, j)

\* the results rs[1], rs[2], ... as one result: the first error, else the
\* sequence of the values
Collect(rs) ==
  IF \E i \in 1..Len(rs) : IsErr(rs[i])
  THEN rs[CHOOSE i \in 1..Len(rs) : IsErr(rs[i]) /\ \A k \in 1..(i - 1) : IsOk(rs[k])]
  ELSE Ok([i \in 1..Len(rs) |-> rs[i].v])

Named(fields, r) ==
  IF IsErr(r) THEN r ELSE Ok([i \in 1..Len(fields) |-> [name |-> fields[i].name, v |-> r.v[i]]])

\* visit_map of a struct that is #[serde(deny_unknown_fields)]
DeserializeMap_deny_unknown_fields(fields, obj) ==
  IF \E key \in DOMAIN obj : \A i \in 1..Len(fields) : key \notin fields[i].keys
  THEN JsonError("unknown field")
  ELSE Named(fields, Collect([i \in 1..Len(fields) |->
         LET f == fields[i]
             present == f.keys \cap DOMAIN obj
         IN IF Cardinality(present) > 1 THEN JsonError("duplicate field")
            ELSE IF present = {}
            THEN (IF f.with = "" /\ f.ty.k = "Option" THEN Ok(None) ELSE JsonError("missing field"))
            ELSE DeserializeField(f, obj[CHOOSE key \in present : TRUE])]))

\* visit_map: unknown keys are ignored; a key given twice (through aliases) is
\* a duplicate-field error; a missing field is None for a plain Option and a
\* missing-field error otherwise
DeserializeMap(fields, obj) ==
  Named(fields, Collect([i \in 1..Len(fields) |->
    LET f == fields[i]
        present == f.keys \cap DOMAIN obj
    IN IF Cardinality(present) > 1 THEN JsonError("duplicate field")
       ELSE IF present = {}
       THEN (IF f.with = "" /\ f.ty.k = "Option" THEN Ok(None) ELSE JsonError("missing field"))
       ELSE DeserializeField(f, obj[CHOOSE key \in present : TRUE])]))

\* visit_seq: the fields by position; too few or too many elements is an error
DeserializeSeq(fields, arr) ==
  IF Len(arr) < Len(fields) THEN JsonError("invalid length")
  ELSE IF Len(arr) > Len(fields) THEN JsonError("trailing characters")
  ELSE Named(fields, Collect([i \in 1..Len(fields) |-> DeserializeField(fields[i], arr[i])]))

DeserializeVec(t, arr) == Collect([i \in 1..Len(arr) |-> Deserialize(t, arr[i])])

Deserialize(ty, j) ==
  CASE ty.k = "String" -> IF j.j = "str" THEN Ok(j.v) ELSE JsonError("invalid type")
    [] ty.k = "Uint" ->
         IF j.j # "num" THEN JsonError("invalid type")
         ELSE IF InRange(j.v, 0, ty.bits) THEN Ok(j.v) ELSE JsonError("invalid value")
    [] ty.k = "Int" ->
         IF j.j # "num" THEN JsonError("invalid type")
         ELSE IF InRange(j.v, 0 - 2 ^ 30, ty.bits - 1) THEN Ok(j.v) ELSE JsonError("invalid value")
    [] ty.k = "F64" -> IF j.j = "num" THEN Ok(j.v) ELSE JsonError("invalid type")
    [] ty.k = "Bool" -> IF j.j = "bool" THEN Ok(j.v) ELSE JsonError("invalid type")
    [] ty.k = "Option" ->
         IF j.j = "null" THEN Ok(None)
         ELSE some_result(Deserialize(ty.of, j))
    [] ty.k = "Vec" -> IF j.j = "arr" THEN DeserializeVec(ty.of, j.v) ELSE JsonError("invalid type")
    [] ty.k = "Enum" -> DeserializeEnum(ty.name, j)
    [] ty.k \in {"Struct", "List"} ->
         IF j.j = "obj" THEN DeserializeMap(Schema(ty), j.v)
         ELSE IF j.j = "arr" THEN DeserializeSeq(Schema(ty), j.v)
         ELSE JsonError("invalid type")

\* the value of a field of a decoded struct
Get(st, name) == st[CHOOSE i \in 1..Len(st) : st[i].name = name].v

\* a response body: its bytes and, when they are a JSON text, the JSON value
\* serde_json reads from them
Body(bytes, json) == [bytes |-> bytes, json |-> json]
JsonBody(bytes, j) == Body(bytes, Some(j))
OtherBody(bytes) == Body(bytes, None)

\* serde_json::from_slice::<T>
from_slice(ty, body) ==
  IF ~IsSome(body.json) THEN JsonError("syntax") ELSE Deserialize(ty, body.json.v)

(***************************************************************************)
(* Errors (error.rs) and HTTP messages                                     *)
(***************************************************************************)
\* a serialization error reported through the variant UrlParse
Error_UrlEncode_as_UrlParse(e) == [kind |-> "UrlParse", e |-> e]

\* the variants of Error a call constructs (error.rs)

Error_UrlEncode(e) == [kind |-> "UrlEncode", e |-> e]
Error_HttpRequest(e) == [kind |-> "HttpRequest", e |-> e]
Error_Json(e) == [kind |-> "Json", e |-> e]
Error_Api(status, body) == [kind |-> "Api", status |-> status, body |-> body]

Request_get(uri, header, body) ==
  [method |-> "GET", uri |-> uri, headers |-> <<header>>, body |-> body]
Response(status, body) == [status |-> status, body |-> body]

\* http::StatusCode
is_client_error(status) == status >= 400 /\ status < 500
is_server_error(status) == status >= 500 /\ status < 600

\* String::from_utf8_lossy over the byte alphabet of the model (printable
\* ASCII, the two bytes of U+00E9, and 0xFF): a byte that is not part of a
\* well-formed sequence becomes U+FFFD
from_utf8_lossy(bs) ==
  Concat([i \in 1..Len(bs) |->
            IF bs[i] < 128 THEN <<CharOf(bs[i])>>
            ELSE IF bs[i] = 195 /\ i < Len(bs) /\ bs[i + 1] = 169 THEN <<EAcute>>
            ELSE IF bs[i] = 169 /\ i > 1 /\ bs[i - 1] = 195 THEN <<>>
            ELSE <<Replacement>>])

\* error_for_status with the server-error half of the condition left out
error_for_status_client_only(res) ==
  IF is_client_error(res.status)
  THEN Err(Error_Api(res.status, Utf8(from_utf8_lossy(res.body.bytes))))
  ELSE Ok(res)

\* error_for_status that takes every status from 300 on for an error
error_for_status_from_300(res) ==
  IF res.status >= 300
  THEN Err(Error_Api(res.status, Utf8(from_utf8_lossy(res.body.bytes))))
  ELSE Ok(res)

\* ResponseExt::error_for_status; the String of the error is held as its bytes
error_for_status(res) ==
  IF is_client_error(res.status) \/ is_server_error(res.status)
  THEN Err(Error_Api(res.status, Utf8(from_utf8_lossy(res.body.bytes))))
  ELSE Ok(res)

(***************************************************************************)
(* Client (client.rs)                                                      *)
(***************************************************************************)
new_with_client(client, api_key) ==
  [client |-> client, base_url |-> StaticBaseUrl, api_key |-> api_key]

\* fmt::Debug of a string, of an Option of a string and of a Url
str_fmt(s) == <<DQuote>> \o s \o <<DQuote>>
Option_str_fmt(o) == IF IsSome(o) THEN <<"S","o","m","e","(">> \o str_fmt(o.v) \o <<")">> ELSE <<"N","o","n","e">>
Url_fmt(url) ==
  <<"U","r","l"," ","{"," ","s","c","h","e","m","e",":"," ">> \o str_fmt(url.scheme)
    \o <<","," ","c","a","n","n","o","t","_","b","e","_","a","_","b","a","s","e",":"," ","f","a","l","s","e",","," ","u","s","e","r","n","a","m","e",":"," ">> \o <<DQuote>> \o <<DQuote>> \o <<","," ","p","a","s","s","w","o","r","d",":"," ","N","o","n","e",","," ","h","o","s","t",":"," ","S","o","m","e","(","D","o","m","a","i","n","(">> \o <<DQuote>>
    \o url.host \o <<DQuote>> \o <<")",")",","," ","p","o","r","t",":"," ","N","o","n","e",","," ","p","a","t","h",":"," ">>
    \o str_fmt(PathToString(url.path))
    \o <<","," ","q","u","e","r","y",":"," ">> \o Option_str_fmt(url.query)
    \o <<","," ","f","r","a","g","m","e","n","t",":"," ">> \o Option_str_fmt(url.fragment) \o <<" ","}">>

\* impl fmt::Debug for Client with the key itself in the field api_key
Client_fmt_showing_key(self) ==
  <<"C","l","i","e","n","t"," ","{"," ","c","l","i","e","n","t",":"," ">> \o <<self.client>>
    \o <<","," ","b","a","s","e","_","u","r","l",":"," ">> \o Url_fmt(self.base_url)
    \o <<","," ","a","p","i","_","k","e","y",":"," ">> \o str_fmt(self.api_key) \o <<" ","}">>

\* impl fmt::Debug for Client: debug_struct("Client") with the fields client,
\* base_url and api_key, the last one given as the text <hidden>
Client_fmt(self) ==
  <<"C","l","i","e","n","t"," ","{"," ","c","l","i","e","n","t",":"," ">> \o <<self.client>>
    \o <<","," ","b","a","s","e","_","u","r","l",":"," ">> \o Url_fmt(self.base_url)
    \o <<","," ","a","p","i","_","k","e","y",":"," ">> \o str_fmt(<<"<","h","i","d","d","e","n",">">>) \o <<" ","}">>

\* perform_request that drops a serialization error and sends the request
\* without a query
perform_request_prepare_lenient(self, url_path, params) ==
  LET url == Url_join(self.base_url, url_path)
      query == serde_urlencoded_to_string(params)
      url2 == IF IsOk(query) /\ query.v # <<>> THEN Url_set_query(url, query.v) ELSE url
  IN Ok(Request_get(Url_to_string(url2), [name |-> "X-API-Key", value |-> self.api_key], <<>>))

\* the part of perform_request before the await: the URL, the query, the
\* request.  Err when the parameters do not serialize.
perform_request_prepare(self, url_path, params) ==
  LET url == Url_join(self.base_url, url_path)
      query == serde_urlencoded_to_string(params)
  IN IF IsErr(query) THEN Err(Error_UrlEncode(query.e))
     ELSE LET url2 == IF query.v # <<>> THEN Url_set_query(url, query.v) ELSE url IN
          Ok(Request_get(Url_to_string(url2),
                         [name |-> "X-API-Key", value |-> self.api_key], <<>>))

\* what a dispatch method hands to fetch_json / fetch_image: the envelope
\* type, the path, the parameters and the fields the result is unwrapped by
fetch_json(top, url_path, params, unwrap) ==
  [fetch |-> "json", top |-> top, url_path |-> url_path, params |-> params, unwrap |-> unwrap]
fetch_image(url_path, params) ==
  [fetch |-> "image", url_path |-> url_path, params |-> params]

RECURSIVE Unwrap(_, _)
Unwrap(value, path) == IF path = <<>> THEN value ELSE Unwrap(Get(value, Head(path)), Tail(path))

\* Client::join_site_ids
RECURSIVE join_site_ids_loop(_, _, _)
join_site_ids_loop(ids, out, first) ==
  IF ids = <<>> THEN out
  ELSE IF first THEN join_site_ids_loop(Tail(ids), out \o Dec(Head(ids)), FALSE)
  ELSE join_site_ids_loop(Tail(ids), out \o <<",">> \o Dec(Head(ids)), FALSE)

\* join_site_ids that ends every id with a comma
join_site_ids_trailing(ids) == Concat([i \in 1..Len(ids) |-> Dec(ids[i]) \o <<",">>])
join_site_ids(ids) == join_site_ids_loop(ids, <<>>, TRUE)

\* parameter structs of api/request.rs
SitesList(p) ==
  <<Field(<<"s","i","z","e">>, "Option<uint>", p.size),
    Field(<<"s","t","a","r","t","I","n","d","e","x">>, "Option<uint>", p.start_index),
    Field(<<"s","e","a","r","c","h","T","e","x","t">>, "Option<str>", p.search_text),
    Field(<<"s","o","r","t","P","r","o","p","e","r","t","y">>, "Option<enum>", p.sort_property),
    Field(<<"s","o","r","t","O","r","d","e","r">>, "Option<enum>", p.sort_order),
    Field(<<"s","t","a","t","u","s">>, "serialize_comma_slice_opt", p.status)>>
SiteEnergy(p) ==
  <<Field(<<"s","t","a","r","t","D","a","t","e">>, "DateSerde", p.start_date),
    Field(<<"e","n","d","D","a","t","e">>, "DateSerde", p.end_date),
    Field(<<"t","i","m","e","U","n","i","t">>, "Option<enum>", p.time_unit)>>
SiteTotalEnergy(p) ==
  <<Field(<<"s","t","a","r","t","D","a","t","e">>, "DateSerde", p.start_date),
    Field(<<"e","n","d","D","a","t","e">>, "DateSerde", p.end_date)>>
DateTimeRange(p) ==
  <<Field(<<"s","t","a","r","t","T","i","m","e">>, "DateTimeSerde", p.start_time),
    Field(<<"e","n","d","T","i","m","e">>, "DateTimeSerde", p.end_time)>>
SitePowerDetails(p) ==
  <<Field(<<"s","t","a","r","t","T","i","m","e">>, "DateTimeSerde", p.start_time),
    Field(<<"e","n","d","T","i","m","e">>, "DateTimeSerde", p.end_time),
    Field(<<"m","e","t","e","r","s">>, "serialize_comma_slice_opt", p.meters)>>
MetersDateTimeRange(p) ==
  <<Field(<<"s","t","a","r","t","T","i","m","e">>, "DateTimeSerde", p.start_time),
    Field(<<"e","n","d","T","i","m","e">>, "DateTimeSerde", p.end_time),
    Field(<<"t","i","m","e","U","n","i","t">>, "Option<enum>", p.time_unit),
    Field(<<"m","e","t","e","r","s">>, "serialize_comma_slice_opt", p.meters)>>
SensorsDateTimeRange(p) ==
  <<Field(<<"s","t","a","r","t","D","a","t","e">>, "DateTimeSerde", p.start_date),
    Field(<<"e","n","d","D","a","t","e">>, "DateTimeSerde", p.end_date)>>
SiteStorageData(p) ==
  <<Field(<<"s","t","a","r","t","T","i","m","e">>, "DateTimeSerde", p.start_time),
    Field(<<"e","n","d","T","i","m","e">>, "DateTimeSerde", p.end_time),
    Field(<<"s","e","r","i","a","l","s">>, "serialize_comma_slice_opt", p.serials)>>
SiteImage(p) ==
  <<Field(<<"m","a","x","W","i","d","t","h">>, "Option<uint>", p.max_width),
    Field(<<"m","a","x","H","e","i","g","h","t">>, "Option<uint>", p.max_height),
    Field(<<"h","a","s","h">>, "Option<uint>", p.hash)>>
SiteEnvBenefits(p) ==
  <<Field(<<"s","y","s","t","e","m","U","n","i","t","s">>, "Option<enum>", p.system_units)>>
AccountsList(p) ==
  <<Field(<<"s","i","z","e">>, "Option<uint>", p.size),
    Field(<<"s","t","a","r","t","I","n","d","e","x">>, "Option<uint>", p.start_index),
    Field(<<"s","e","a","r","c","h","T","e","x","t">>, "Option<str>", p.search_text),
    Field(<<"s","o","r","t","P","r","o","p","e","r","t","y">>, "Option<enum>", p.sort_property),
    Field(<<"s","o","r","t","O","r","d","e","r">>, "Option<enum>", p.sort_order)>>

\* the dispatch methods
\* version_current that hands over the version object, not its release
version_current_whole_spec ==
  fetch_json(TStruct("version", "CurrentTop"), <<"/","v","e","r","s","i","o","n","/","c","u","r","r","e","n","t",".","j","s","o","n">>, Unit, <<"version">>)
version_current ==
  fetch_json(TStruct("version", "CurrentTop"), <<"/","v","e","r","s","i","o","n","/","c","u","r","r","e","n","t",".","j","s","o","n">>, Unit, <<"version", "release">>)
version_supported ==
  fetch_json(TStruct("version", "SupportedTop"), <<"/","v","e","r","s","i","o","n","/","s","u","p","p","o","r","t","e","d",".","j","s","o","n">>, Unit, <<"supported">>)
sites_list(params) ==
  fetch_json(TStruct("site", "ListTop"), <<"/","s","i","t","e","s","/","l","i","s","t",".","j","s","o","n">>, SitesList(params), <<"sites", "list">>)
site_details(site_id) ==
  fetch_json(TStruct("site", "DetailsTop"), <<"/","s","i","t","e","/">> \o Dec(site_id) \o <<"/","d","e","t","a","i","l","s",".","j","s","o","n">>, Unit, <<"details">>)
site_data_period(site_id) ==
  fetch_json(TStruct("site", "DataPeriodTop"), <<"/","s","i","t","e","/">> \o Dec(site_id) \o <<"/","d","a","t","a","P","e","r","i","o","d",".","j","s","o","n">>, Unit,
             <<"data_period">>)
site_data_period_bulk(site_ids) ==
  fetch_json(TStruct("site", "DataPeriodBulkTop"),
             <<"/","s","i","t","e","s","/">> \o join_site_ids(site_ids) \o <<"/","d","a","t","a","P","e","r","i","o","d",".","j","s","o","n">>, Unit,
             <<"date_period_list", "list">>)
site_energy(site_id, params) ==
  fetch_json(TStruct("site", "EnergyTop"), <<"/","s","i","t","e","/">> \o Dec(site_id) \o <<"/","e","n","e","r","g","y",".","j","s","o","n">>,
             SiteEnergy(params), <<"energy">>)
site_energy_bulk(site_ids, params) ==
  fetch_json(TStruct("site", "EnergyBulkTop"),
             <<"/","s","i","t","e","s","/">> \o join_site_ids(site_ids) \o <<"/","e","n","e","r","g","y",".","j","s","o","n">>, SiteEnergy(params),
             <<"sites_energy">>)
site_time_frame_energy(site_id, params) ==
  fetch_json(TStruct("site", "TimeframeEnergyTop"),
             <<"/","s","i","t","e","/">> \o Dec(site_id) \o <<"/","t","i","m","e","F","r","a","m","e","E","n","e","r","g","y",".","j","s","o","n">>, SiteTotalEnergy(params),
             <<"timeframe_energy">>)
site_time_frame_energy_bulk(site_ids, params) ==
  fetch_json(TStruct("site", "TimeframeEnergyBulkTop"),
             <<"/","s","i","t","e","s","/">> \o join_site_ids(site_ids) \o <<"/","t","i","m","e","F","r","a","m","e","E","n","e","r","g","y",".","j","s","o","n">>,
             SiteTotalEnergy(params), <<"timeframe_energy_list", "list">>)
site_power(site_id, params) ==
  fetch_json(TStruct("site", "PowerTop"), <<"/","s","i","t","e","/">> \o Dec(site_id) \o <<"/","p","o","w","e","r",".","j","s","o","n">>,
             DateTimeRange(params), <<"power">>)
site_power_bulk(site_ids, params) ==
  fetch_json(TStruct("site", "PowerBulkTop"),
             <<"/","s","i","t","e","s","/">> \o join_site_ids(site_ids) \o <<"/","p","o","w","e","r",".","j","s","o","n">>, DateTimeRange(params),
             <<"power_date_values_list">>)
site_overview(site_id) ==
  fetch_json(TStruct("site", "OverviewTop"), <<"/","s","i","t","e","/">> \o Dec(site_id) \o <<"/","o","v","e","r","v","i","e","w",".","j","s","o","n">>, Unit,
             <<"overview">>)
\* site_overview_bulk that decodes the envelope of site_overview
site_overview_bulk_as_single(site_ids) ==
  fetch_json(TStruct("site", "OverviewTop"),
             <<"/","s","i","t","e","s","/">> \o join_site_ids(site_ids) \o <<"/","o","v","e","r","v","i","e","w",".","j","s","o","n">>, Unit,
             <<"overview">>)
site_overview_bulk(site_ids) ==
  fetch_json(TStruct("site", "OverviewBulkTop"),
             <<"/","s","i","t","e","s","/">> \o join_site_ids(site_ids) \o <<"/","o","v","e","r","v","i","e","w",".","j","s","o","n">>, Unit,
             <<"sites_overviews", "list">>)
site_power_details(site_id, params) ==
  fetch_json(TStruct("site", "PowerDetailsTop"), <<"/","s","i","t","e","/">> \o Dec(site_id) \o <<"/","p","o","w","e","r","D","e","t","a","i","l","s",".","j","s","o","n">>,
             SitePowerDetails(params), <<"power_details">>)
site_energy_details(site_id, params) ==
  fetch_json(TStruct("site", "EnergyDetailsTop"), <<"/","s","i","t","e","/">> \o Dec(site_id) \o <<"/","e","n","e","r","g","y","D","e","t","a","i","l","s",".","j","s","o","n">>,
             MetersDateTimeRange(params), <<"energy_details">>)
site_current_power_flow(site_id) ==
  fetch_json(TStruct("site", "CurrentPowerFlowTop"),
             <<"/","s","i","t","e","/">> \o Dec(site_id) \o <<"/","c","u","r","r","e","n","t","P","o","w","e","r","F","l","o","w",".","j","s","o","n">>, Unit,
             <<"site_current_power_flow">>)
site_storage_data(site_id, params) ==
  fetch_json(TStruct("site", "StorageDataTop"), <<"/","s","i","t","e","/">> \o Dec(site_id) \o <<"/","s","t","o","r","a","g","e","D","a","t","a",".","j","s","o","n">>,
             SiteStorageData(params), <<"storage_data", "list">>)
site_image(site_id, params) ==
  fetch_image(<<"/","s","i","t","e","/">> \o Dec(site_id) \o <<"/","s","i","t","e","I","m","a","g","e","/","i","m","a","g","e",".","j","p","g">>, SiteImage(params))
site_env_benefits(site_id, params) ==
  fetch_json(TStruct("site", "EnvBenefitsTop"), <<"/","s","i","t","e","/">> \o Dec(site_id) \o <<"/","e","n","v","B","e","n","e","f","i","t","s",".","j","s","o","n">>,
             SiteEnvBenefits(params), <<"env_benefits">>)
site_installer_image(site_id) ==
  fetch_image(<<"/","s","i","t","e","/">> \o Dec(site_id) \o <<"/","i","n","s","t","a","l","l","e","r","I","m","a","g","e","/","i","m","a","g","e",".","j","p","g">>, Unit)
site_inventory(site_id) ==
  fetch_json(TStruct("site", "InventoryTop"), <<"/","s","i","t","e","/">> \o Dec(site_id) \o <<"/","i","n","v","e","n","t","o","r","y",".","j","s","o","n">>, Unit,
             <<"inventory">>)
site_meters(site_id, params) ==
  fetch_json(TStruct("site", "MetersTop"), <<"/","s","i","t","e","/">> \o Dec(site_id) \o <<"/","m","e","t","e","r","s",".","j","s","o","n">>,
             MetersDateTimeRange(params), <<"meter_energy_details">>)
site_sensor_data(site_id, params) ==
  fetch_json(TStruct("site", "SensorDataTop"), <<"/","s","i","t","e","/">> \o Dec(site_id) \o <<"/","s","e","n","s","o","r","s",".","j","s","o","n">>,
             SensorsDateTimeRange(params), <<"site_sensors", "list">>)
equipment_list(site_id) ==
  fetch_json(TStruct("equipment", "ListTop"), <<"/","e","q","u","i","p","m","e","n","t","/">> \o Dec(site_id) \o <<"/","l","i","s","t",".","j","s","o","n">>, Unit,
             <<"reporters", "list">>)
equipment_sensors(site_id) ==
  fetch_json(TStruct("equipment", "SensorsTop"), <<"/","e","q","u","i","p","m","e","n","t","/">> \o Dec(site_id) \o <<"/","s","e","n","s","o","r","s",".","j","s","o","n">>,
             Unit, <<"site_sensors", "list">>)
equipment_data(site_id, serial_number, params) ==
  fetch_json(TStruct("equipment", "DataTop"),
             <<"/","e","q","u","i","p","m","e","n","t","/">> \o Dec(site_id) \o <<"/">> \o utf8_percent_encode(serial_number)
               \o <<"/","d","a","t","a",".","j","s","o","n">>,
             DateTimeRange(params), <<"data", "list">>)
equipment_changelog(site_id, serial_number) ==
  fetch_json(TStruct("equipment", "EquipmentChangelogTop"),
             <<"/","e","q","u","i","p","m","e","n","t","/">> \o Dec(site_id) \o <<"/">> \o utf8_percent_encode(serial_number)
               \o <<"/","c","h","a","n","g","e","L","o","g",".","j","s","o","n">>,
             Unit, <<"changelog", "list">>)
accounts_list(params) ==
  fetch_json(TStruct("accounts", "ListTop"), <<"/","a","c","c","o","u","n","t","s","/","l","i","s","t",".","j","s","o","n">>, AccountsList(params),
             <<"accounts", "list">>)

(***************************************************************************)
(* Inputs                                                                  *)
(***************************************************************************)
MaxSerialLen == 2
MaxListLen == 2

SeqsUpTo(S, n) == UNION {[1..k -> S] : k \in 0..n}
Opt(S) == {None} \cup {Some(x) : x \in S}

ApiKeys == {<<"A","P","I","_","K","E","Y">>, <<"k","&","2">>}
Adapters == {"adapter"}
SiteIds == {5, 120}
SiteIdLists == SeqsUpTo(SiteIds, MaxListLen)
SerialChars == {"a", "/", ".", EAcute}
SerialNumbers == SeqsUpTo(SerialChars, MaxSerialLen) \cup {<<"7","%","+","2"," ","?","#">>}
BatterySerials == {<<"B","1">>, <<"7","E","/","2">>}
SearchTexts == {<<"b"," ","b">>}

Date1 == NaiveDate(2021, 8, 10)
Date2 == NaiveDate(2024, 12, 31)
DateRanges == {<<Date1, Date1>>, <<Date1, Date2>>}
DateTime1 == NaiveDateTime(Date1, 0, 0, 0)
DateTime2 == NaiveDateTime(Date2, 8, 12, 14)
DateTimeRanges == {<<DateTime1, DateTime2>>}

SitesListInputs ==
  [size : Opt({32}), start_index : Opt({100}), search_text : Opt(SearchTexts),
   sort_property : Opt({Variant("SiteSortBy", <<"P","e","a","k","P","o","w","e","r">>)}),
   sort_order : Opt({Variant("SortOrder", <<"A","s","c","e","n","d","i","n","g">>)}),
   status : Opt(SeqsUpTo(SiteStatus, MaxListLen))]
SiteEnergyInputs ==
  {[start_date |-> r[1], end_date |-> r[2], time_unit |-> u] : r \in DateRanges, u \in Opt(TimeUnit)}
SiteTotalEnergyInputs == {[start_date |-> r[1], end_date |-> r[2]] : r \in DateRanges}
DateTimeRangeInputs == {[start_time |-> r[1], end_time |-> r[2]] : r \in DateTimeRanges}
SitePowerDetailsInputs ==
  {[start_time |-> r[1], end_time |-> r[2], meters |-> m] :
     r \in DateTimeRanges, m \in Opt(SeqsUpTo(MeterType, MaxListLen))}
MetersDateTimeRangeInputs ==
  {[start_time |-> r[1], end_time |-> r[2], time_unit |-> u, meters |-> m] :
     r \in DateTimeRanges, u \in Opt(TimeUnit), m \in Opt(SeqsUpTo(MeterType, MaxListLen))}
SensorsDateTimeRangeInputs == {[start_date |-> r[1], end_date |-> r[2]] : r \in DateTimeRanges}
SiteStorageDataInputs ==
  {[start_time |-> r[1], end_time |-> r[2], serials |-> s] :
     r \in DateTimeRanges,
     s \in Opt(SeqsUpTo({StringItem(b) : b \in BatterySerials}, MaxListLen))}
SiteImageInputs == [max_width : Opt({640}), max_height : Opt({480}), hash : Opt({123})]
SiteEnvBenefitsInputs == [system_units : Opt(SystemUnits)]
AccountsListInputs ==
  [size : Opt({32}), start_index : Opt({100}), search_text : Opt(SearchTexts),
   sort_property : Opt({Variant("AccountSortBy", <<"Z","i","p">>)}),
   sort_order : Opt({Variant("SortOrder", <<"D","e","s","c","e","n","d","i","n","g">>)})]

Inv(method, site, serial, params) ==
  [method |-> method, site |-> site, serial |-> serial, params |-> params]
NoSite == <<>>
NoSerial == <<>>
NoParams == [unit |-> TRUE]

\* a call of a dispatch method with its arguments
Invocations ==
  {Inv(m, NoSite, NoSerial, NoParams) : m \in {"version_current", "version_supported"}}
  \cup {Inv("sites_list", NoSite, NoSerial, p) : p \in SitesListInputs}
  \cup {Inv("accounts_list", NoSite, NoSerial, p) : p \in AccountsListInputs}
  \cup {Inv(m, <<s>>, NoSerial, NoParams) :
          m \in {"site_details", "site_data_period", "site_overview", "site_current_power_flow",
                 "site_installer_image", "site_inventory", "equipment_list", "equipment_sensors"},
          s \in SiteIds}
  \cup {Inv(m, ids, NoSerial, NoParams) :
          m \in {"site_data_period_bulk", "site_overview_bulk"}, ids \in SiteIdLists}
  \cup {Inv("site_energy", <<s>>, NoSerial, p) : s \in SiteIds, p \in SiteEnergyInputs}
  \cup {Inv("site_energy_bulk", ids, NoSerial, p) : ids \in SiteIdLists, p \in SiteEnergyInputs}
  \cup {Inv("site_time_frame_energy", <<s>>, NoSerial, p) : s \in SiteIds, p \in SiteTotalEnergyInputs}
  \cup {Inv("site_time_frame_energy_bulk", ids, NoSerial, p) :
          ids \in SiteIdLists, p \in SiteTotalEnergyInputs}
  \cup {Inv(m, <<s>>, NoSerial, p) : m \in {"site_power"}, s \in SiteIds, p \in DateTimeRangeInputs}
  \cup {Inv("site_power_bulk", ids, NoSerial, p) : ids \in SiteIdLists, p \in DateTimeRangeInputs}
  \cup {Inv("site_power_details", <<s>>, NoSerial, p) : s \in SiteIds, p \in SitePowerDetailsInputs}
  \cup {Inv(m, <<s>>, NoSerial, p) :
          m \in {"site_energy_details", "site_meters"}, s \in SiteIds, p \in MetersDateTimeRangeInputs}
  \cup {Inv("site_storage_data", <<s>>, NoSerial, p) : s \in SiteIds, p \in SiteStorageDataInputs}
  \cup {Inv("site_image", <<s>>, NoSerial, p) : s \in SiteIds, p \in SiteImageInputs}
  \cup {Inv("site_env_benefits", <<s>>, NoSerial, p) : s \in SiteIds, p \in SiteEnvBenefitsInputs}
  \cup {Inv("site_sensor_data", <<s>>, NoSerial, p) : s \in SiteIds, p \in SensorsDateTimeRangeInputs}
  \cup {Inv("equipment_data", <<s>>, sn, p) :
          s \in SiteIds, sn \in SerialNumbers, p \in DateTimeRangeInputs}
  \cup {Inv("equipment_changelog", <<s>>, sn, NoParams) : s \in SiteIds, sn \in SerialNumbers}

Dispatch(i) ==
  CASE i.method = "version_current" -> version_current
    [] i.method = "version_supported" -> version_supported
    [] i.method = "sites_list" -> sites_list(i.params)
    [] i.method = "site_details" -> site_details(i.site[1])
    [] i.method = "site_data_period" -> site_data_period(i.site[1])
    [] i.method = "site_data_period_bulk" -> site_data_period_bulk(i.site)
    [] i.method = "site_energy" -> site_energy(i.site[1], i.params)
    [] i.method = "site_energy_bulk" -> site_energy_bulk(i.site, i.params)
    [] i.method = "site_time_frame_energy" -> site_time_frame_energy(i.site[1], i.params)
    [] i.method = "site_time_frame_energy_bulk" -> site_time_frame_energy_bulk(i.site, i.params)
    [] i.method = "site_power" -> site_power(i.site[1], i.params)
    [] i.method = "site_power_bulk" -> site_power_bulk(i.site, i.params)
    [] i.method = "site_overview" -> site_overview(i.site[1])
    [] i.method = "site_overview_bulk" -> site_overview_bulk(i.site)
    [] i.method = "site_power_details" -> site_power_details(i.site[1], i.params)
    [] i.method = "site_energy_details" -> site_energy_details(i.site[1], i.params)
    [] i.method = "site_current_power_flow" -> site_current_power_flow(i.site[1])
    [] i.method = "site_storage_data" -> site_storage_data(i.site[1], i.params)
    [] i.method = "site_image" -> site_image(i.site[1], i.params)
    [] i.method = "site_env_benefits" -> site_env_benefits(i.site[1], i.params)
    [] i.method = "site_installer_image" -> site_installer_image(i.site[1])
    [] i.method = "site_inventory" -> site_inventory(i.site[1])
    [] i.method = "site_meters" -> site_meters(i.site[1], i.params)
    [] i.method = "site_sensor_data" -> site_sensor_data(i.site[1], i.params)
    [] i.method = "equipment_list" -> equipment_list(i.site[1])
    [] i.method = "equipment_sensors" -> equipment_sensors(i.site[1])
    [] i.method = "equipment_data" -> equipment_data(i.site[1], i.serial, i.params)
    [] i.method = "equipment_changelog" -> equipment_changelog(i.site[1], i.serial)
    [] i.method = "accounts_list" -> accounts_list(i.params)

\* what the HTTP capability can answer
Statuses == {200, 304, 403, 500}
TransportErrors == {"timeout", "connection reset"}

VersionJson == JObj([version |-> JObj([release |-> JStr(<<"1",".","2",".","3">>)])])
ReportersJson ==
  JObj([reporters |-> JObj([count |-> JNum(1),
     list |-> JArr(<<JObj([name |-> JStr(<<"I","n","v"," ","1">>), manufacturer |-> JStr(<<"S","o","l","a","r","E","d","g","e">>),
                          model |-> JStr(<<"S","E","5","K">>), serialNumber |-> JStr(<<"7","E","/","2">>)])>>)])])

Bodies ==
  {OtherBody(<<70,111,114,98,105,100,100,101,110>>),
   OtherBody(<<70, 255>>),
   JsonBody(<<123,125>>, JObj(<<>>)),
   JsonBody(<<123,34,118,101,114,115,105,111,110,34,58,123,34,114,101,108,101,97,115,101,34,58,34,49,46,50,46,51,34,125,125>>, VersionJson),
   JsonBody(<<123,34,114,101,112,111,114,116,101,114,115,34,58,123,34,99,111,117,110,116,34,58,49,44,34,108,105,115,116,34,58,91,123,34,110,97,109,101,34,58,34,73,110,118,32,49,34,44,34,109,97,110,117,102,97,99,116,117,114,101,114,34,58,34,83,111,108,97,114,69,100,103,101,34,44,34,109,111,100,101,108,34,58,34,83,69,53,75,34,44,34,115,101,114,105,97,108,78,117,109,98,101,114,34,58,34,55,69,47,50,34,125,93,125,125>>,
            ReportersJson),
   JsonBody(<<123,34,118,101,114,115,105,111,110,34,58,123,34,114,101,108,101,97,115,101,34,58,34,50,46,48,34,125,125>>,
            JObj([version |-> JObj([release |-> JStr(<<"2",".","0">>)])]))}

Outcomes ==
  {Err(e) : e \in TransportErrors}
  \cup {Ok(Response(s, b)) : s \in Statuses, b \in Bodies}

\* perform_request that reports every transport error as the same value
perform_request_finish_opaque(out) ==
  IF IsErr(out) THEN [r |-> Err(Error_HttpRequest("transport error")), steps |-> <<>>]
  ELSE [r |-> error_for_status(out.v), steps |-> <<"error_for_status">>]

\* the rest of fetch_json once execute has returned out: the result of the
\* call and the steps that ran
perform_request_finish(out) ==
  IF IsErr(out) THEN [r |-> Err(Error_HttpRequest(out.e)), steps |-> <<>>]
  ELSE [r |-> error_for_status(out.v), steps |-> <<"error_for_status">>]

\* fetch_json that answers a body it cannot decode with an empty value
decoded_or_default(v, unwrap) == IF IsErr(v) THEN Ok(<<>>) ELSE Ok(Unwrap(v.v, unwrap))
fetch_json_finish_default(d, out) ==
  LET p == perform_request_finish(out) IN
  IF IsErr(p.r) THEN p
  ELSE [r |-> decoded_or_default(from_slice(d.top, p.r.v.body), d.unwrap),
        steps |-> p.steps \o <<"from_slice">>]

\* Ok(serde_json::from_slice(..)?) and the .map(|res| res.field) of the method
decoded(v, unwrap) == IF IsErr(v) THEN Err(Error_Json(v.e)) ELSE Ok(Unwrap(v.v, unwrap))

\* fetch_json that decodes the body before it looks at the status
fetch_json_finish_decode_first(d, out) ==
  IF IsErr(out) THEN [r |-> Err(Error_HttpRequest(out.e)), steps |-> <<>>]
  ELSE IF IsErr(from_slice(d.top, out.v.body))
  THEN [r |-> Err(Error_Json(from_slice(d.top, out.v.body).e)), steps |-> <<"from_slice">>]
  ELSE [r |-> IF IsErr(error_for_status(out.v)) THEN error_for_status(out.v)
              ELSE decoded(from_slice(d.top, out.v.body), d.unwrap),
        steps |-> <<"from_slice", "error_for_status">>]

fetch_json_finish(d, out) ==
  LET p == perform_request_finish(out) IN
  IF IsErr(p.r) THEN p
  ELSE [r |-> decoded(from_slice(d.top, p.r.v.body), d.unwrap),
        steps |-> p.steps \o <<"from_slice">>]

\* fetch_image that parses the body as JSON before handing it over
fetch_image_finish_decoding(d, out) ==
  LET p == perform_request_finish(out) IN
  IF IsErr(p.r) THEN p
  ELSE [r |-> IF p.r.v.body.json = None THEN Err(Error_Json(JsonError("expected value")))
              ELSE Ok(p.r.v.body.bytes),
        steps |-> p.steps \o <<"from_slice">>]

fetch_image_finish(d, out) ==
  LET p == perform_request_finish(out) IN
  IF IsErr(p.r) THEN p ELSE [r |-> Ok(p.r.v.body.bytes), steps |-> p.steps]

fetch_finish(d, out) ==
  IF d.fetch = "json" THEN fetch_json_finish(d, out) ELSE fetch_image_finish(d, out)

(***************************************************************************)
(* The state machine: one client, one call at a time.  A call runs from    *)
(* its start to the await of execute in one step, and from the return of   *)
(* execute to its result in another.                                       *)
(***************************************************************************)
VARIABLES
  client,    \* the Client: injected adapter, base_url, api_key
  pc,        \* "idle", "awaiting" (inside execute), "done" (result returned)
  call,      \* the dispatch method called and its arguments
  request,   \* the request handed to execute, if any
  response,  \* what execute returned, if it has
  result,    \* the Result the dispatch method returned
  steps      \* the steps the call has performed so far

vars == <<client, pc, call, request, response, result, steps>>

Init ==
  /\ client \in {new_with_client(a, k) : a \in Adapters, k \in ApiKeys}
  /\ pc = "idle"
  /\ call = None
  /\ request = None
  /\ response = None
  /\ result = None
  /\ steps = <<>>

\* a dispatch method is called: path and query are built; either the
\* parameters fail to serialize and the call returns, or execute is invoked
Call(i) ==
  /\ pc = "idle"
  /\ call' = Some(i)
  /\ LET d == Dispatch(i)
         req == perform_request_prepare(client, d.url_path, d.params)
     IN IF IsErr(req)
        THEN /\ pc' = "done"
             /\ request' = None
             /\ result' = Some(req)
             /\ steps' = <<"to_string">>
        ELSE /\ pc' = "awaiting"
             /\ request' = Some(req.v)
             /\ result' = None
             /\ steps' = <<"to_string", "execute">>
  /\ UNCHANGED <<client, response>>

\* Execute with one retry: the first transport error sends the request again
Execute_retry(out) ==
  IF IsErr(out) /\ Len(steps) < 3
  THEN /\ pc = "awaiting"
       /\ steps' = steps \o <<"execute">>
       /\ UNCHANGED <<client, pc, call, request, response, result>>
  ELSE /\ pc = "awaiting"
       /\ LET fin == fetch_finish(Dispatch(call.v), out) IN
            /\ result' = Some(fin.r)
            /\ steps' = steps \o fin.steps
       /\ response' = Some(out)
       /\ pc' = "done"
       /\ UNCHANGED <<client, call, request>>

\* Execute that drops the key of the client once the server refused it
Execute_dropping_key(out) ==
  /\ pc = "awaiting"
  /\ LET fin == fetch_finish(Dispatch(call.v), out) IN
       /\ result' = Some(fin.r)
       /\ steps' = steps \o fin.steps
       /\ client' = IF IsErr(fin.r) /\ fin.r.e.kind = "Api" THEN [client EXCEPT !.api_key = <<>>] ELSE client
  /\ response' = Some(out)
  /\ pc' = "done"
  /\ UNCHANGED <<call, request>>

\* execute returns a response or a transport error; the call completes
Execute(out) ==
  /\ pc = "awaiting"
  /\ LET fin == fetch_finish(Dispatch(call.v), out) IN
       /\ result' = Some(fin.r)
       /\ steps' = steps \o fin.steps
  /\ response' = Some(out)
  /\ pc' = "done"
  /\ UNCHANGED <<client, call, request>>

\* the caller takes the result; the client is ready for the next call
Return ==
  /\ pc = "done"
  /\ pc' = "idle"
  /\ call' = None
  /\ request' = None
  /\ response' = None
  /\ result' = None
  /\ steps' = <<>>
  /\ UNCHANGED client

Next ==
  \/ \E i \in Invocations : Call(i)
  \/ \E out \in Outcomes : Execute(out)
  \/ Return

Spec == Init /\ [][Next]_vars

(***************************************************************************)
(* The first client (solaredge/src/client.rs): the key travels in the      *)
(* query, the adapter is handed the URL and answers the text of the body.  *)
(* A call of it is recorded with the field legacy.                         *)
(***************************************************************************)
\* Client::prepare_url with the key written in front of the parameters
prepare_url_key_first(self, path, params) ==
  LET query == serde_urlencoded_to_string(params) IN
  IF IsErr(query) THEN Err(Error_UrlEncode(query.e))
  ELSE Ok(Url_append_pair_first(IF query.v # <<>> THEN Url_set_query(Url_join(self.base_url, path), query.v)
                                ELSE Url_join(self.base_url, path),
                                <<"a","p","i","_","k","e","y">>, self.api_key))

\* Client::prepare_url
prepare_url(self, path, params) ==
  LET query == serde_urlencoded_to_string(params) IN
  IF IsErr(query) THEN Err(Error_UrlEncode(query.e))
  ELSE Ok(Url_append_pair(IF query.v # <<>> THEN Url_set_query(Url_join(self.base_url, path), query.v)
                          ELSE Url_join(self.base_url, path),
                          <<"a","p","i","_","k","e","y">>, self.api_key))

\* request::SitesList of the first client
Legacy_SitesList(p) == SitesList(p)

LegacyInv(method, params) == [legacy |-> TRUE, method |-> method, params |-> params]
LegacyInvocations ==
  {LegacyInv(m, NoParams) : m \in {"version_current", "version_supported"}}
  \cup {LegacyInv("sites_list", p) : p \in SitesListInputs}

\* the methods of the first client: envelope type, path, parameters and the
\* fields the result is taken from
LegacyDispatch(i) ==
  CASE i.method = "version_current" ->
         fetch_json(TStruct("legacy", "VersionCurrentTop"), <<"/","v","e","r","s","i","o","n","/","c","u","r","r","e","n","t",".","j","s","o","n">>, Unit, <<"version", "release">>)
    [] i.method = "version_supported" ->
         fetch_json(TStruct("legacy", "VersionSupportedTop"), <<"/","v","e","r","s","i","o","n","/","s","u","p","p","o","r","t","e","d",".","j","s","o","n">>, Unit, <<"supported">>)
    [] i.method = "sites_list" ->
         fetch_json(TStruct("legacy", "SitesListTop"), <<"/","s","i","t","e","s","/","l","i","s","t",".","j","s","o","n">>, Legacy_SitesList(i.params), <<"sites", "site">>)

\* what HttpClientAdapter::get can answer: an error or the text of the body
LegacyBodies ==
  {OtherBody(<<70,111,114,98,105,100,100,101,110>>),
   JsonBody(<<123,125>>, JObj(<<>>)),
   JsonBody(<<123,34,118,101,114,115,105,111,110,34,58,123,34,114,101,108,101,97,115,101,34,58,34,49,46,50,46,51,34,125,125>>, VersionJson),
   JsonBody(<<123,34,115,105,116,101,115,34,58,123,34,99,111,117,110,116,34,58,48,44,34,115,105,116,101,34,58,91,93,125,125>>,
            JObj([sites |-> JObj([count |-> JNum(0), site |-> JArr(<<>>)])]))}
LegacyOutcomes == {Err(e) : e \in TransportErrors} \cup {Ok(b) : b \in LegacyBodies}

\* a method of the first client is called: prepare_url, then the adapter's get
LegacyCall(i) ==
  /\ pc = "idle"
  /\ call' = Some(i)
  /\ LET url == prepare_url(client, LegacyDispatch(i).url_path, LegacyDispatch(i).params)
     IN IF IsErr(url)
        THEN /\ pc' = "done"
             /\ request' = None
             /\ result' = Some(url)
             /\ steps' = <<"to_string">>
        ELSE /\ pc' = "getting"
             /\ request' = Some([method |-> "GET", uri |-> Url_to_string(url.v), headers |-> <<>>, body |-> <<>>])
             /\ result' = None
             /\ steps' = <<"to_string", "get">>
  /\ UNCHANGED <<client, response>>

\* get returns: .map_err(Error::HttpRequest)?, serde_json::from_str(&res)?
\* and the field of the envelope
LegacyGet(out) ==
  /\ pc = "getting"
  /\ result' = Some(IF IsErr(out) THEN Err(Error_HttpRequest(out.e))
                    ELSE decoded(from_slice(LegacyDispatch(call.v).top, out.v), LegacyDispatch(call.v).unwrap))
  /\ steps' = steps \o (IF IsErr(out) THEN <<>> ELSE <<"from_str">>)
  /\ response' = Some(out)
  /\ pc' = "done"
  /\ UNCHANGED <<client, call, request>>

\* both clients, side by side
\* solaredge/src/client.rs, impl fmt::Debug for Client: the same three fields,
\* api_key given as the text <hidden>
Legacy_Client_fmt(self) ==
  <<"C","l","i","e","n","t"," ","{"," ","c","l","i","e","n","t",":"," ">> \o <<self.client>>
    \o <<","," ","b","a","s","e","_","u","r","l",":"," ">> \o Url_fmt(self.base_url)
    \o <<","," ","a","p","i","_","k","e","y",":"," ">> \o str_fmt(<<"<","h","i","d","d","e","n",">">>) \o <<" ","}">>

BothNext ==
  \/ \E i \in Invocations : Call(i)
  \/ \E out \in Outcomes : Execute(out)
  \/ \E i \in LegacyInvocations : LegacyCall(i)
  \/ \E out \in LegacyOutcomes : LegacyGet(out)
  \/ Return

BothClients == Init /\ [][BothNext]_vars

(***************************************************************************)
(* Several callers sharing one Client (&self): each call is a future with  *)
(* its own locals.  Here pc, call, request, response, result and steps     *)
(* hold one value per caller; the calls interleave at the await of         *)
(* execute.                                                                *)
(***************************************************************************)
Callers == {1, 2}
SharedMethods == {"version_current", "equipment_list", "site_installer_image", "site_storage_data"}

\* one call of each method; the one of site_storage_data has parameters
\* that do not serialize
SharedInv(m) ==
  CASE m = "version_current" -> Inv(m, NoSite, NoSerial, NoParams)
    [] m = "equipment_list" -> Inv(m, <<5>>, NoSerial, NoParams)
    [] m = "site_installer_image" -> Inv(m, <<120>>, NoSerial, NoParams)
    [] m = "site_storage_data" ->
         Inv(m, <<5>>, NoSerial,
             [start_time |-> DateTime1, end_time |-> DateTime2,
              serials |-> Some(<<StringItem(<<"B","1">>)>>)])
SharedStatuses == {200, 500}
SharedOutcome(e, s, b) == IF e # "" THEN Err(e) ELSE Ok(Response(s, b))

SharedInit ==
  /\ client \in {new_with_client(a, k) : a \in Adapters, k \in ApiKeys}
  /\ pc = [c \in Callers |-> "idle"]
  /\ call = [c \in Callers |-> None]
  /\ request = [c \in Callers |-> None]
  /\ response = [c \in Callers |-> None]
  /\ result = [c \in Callers |-> None]
  /\ steps = [c \in Callers |-> <<>>]

\* caller c calls a dispatch method
SharedCall(c, i) ==
  /\ pc[c] = "idle"
  /\ call' = [call EXCEPT ![c] = Some(i)]
  /\ LET req == perform_request_prepare(client, Dispatch(i).url_path, Dispatch(i).params)
     IN IF IsErr(req)
        THEN /\ pc' = [pc EXCEPT ![c] = "done"]
             /\ request' = [request EXCEPT ![c] = None]
             /\ result' = [result EXCEPT ![c] = Some(req)]
             /\ steps' = [steps EXCEPT ![c] = <<"to_string">>]
        ELSE /\ pc' = [pc EXCEPT ![c] = "awaiting"]
             /\ request' = [request EXCEPT ![c] = Some(req.v)]
             /\ result' = [result EXCEPT ![c] = None]
             /\ steps' = [steps EXCEPT ![c] = <<"to_string", "execute">>]
  /\ UNCHANGED <<client, response>>

\* a client that keeps the last response it saw and answers from it
SharedExecute_cached(c, out) ==
  /\ pc[c] = "awaiting"
  /\ LET seen == IF \E o \in Callers \ {c} : IsSome(response[o])
                 THEN response[CHOOSE o \in Callers \ {c} : IsSome(response[o])].v
                 ELSE out
     IN /\ result' = [result EXCEPT ![c] = Some(fetch_finish(Dispatch(call[c].v), seen).r)]
        /\ steps' = [steps EXCEPT ![c] = @ \o fetch_finish(Dispatch(call[c].v), seen).steps]
  /\ response' = [response EXCEPT ![c] = Some(out)]
  /\ pc' = [pc EXCEPT ![c] = "done"]
  /\ UNCHANGED <<client, call, request>>

\* execute of caller c returns; its call completes
SharedExecute(c, out) ==
  /\ pc[c] = "awaiting"
  /\ result' = [result EXCEPT ![c] = Some(fetch_finish(Dispatch(call[c].v), out).r)]
  /\ steps' = [steps EXCEPT ![c] = @ \o fetch_finish(Dispatch(call[c].v), out).steps]
  /\ response' = [response EXCEPT ![c] = Some(out)]
  /\ pc' = [pc EXCEPT ![c] = "done"]
  /\ UNCHANGED <<client, call, request>>

\* caller c takes its result
SharedReturn(c) ==
  /\ pc[c] = "done"
  /\ pc' = [pc EXCEPT ![c] = "idle"]
  /\ call' = [call EXCEPT ![c] = None]
  /\ request' = [request EXCEPT ![c] = None]
  /\ response' = [response EXCEPT ![c] = None]
  /\ result' = [result EXCEPT ![c] = None]
  /\ steps' = [steps EXCEPT ![c] = <<>>]
  /\ UNCHANGED client

SharedNext ==
  \/ \E c \in Callers, m \in SharedMethods : SharedCall(c, SharedInv(m))
  \/ \E c \in Callers, e \in TransportErrors \cup {""}, s \in SharedStatuses, b \in Bodies :
       SharedExecute(c, SharedOutcome(e, s, b))
  \/ \E c \in Callers : SharedReturn(c)

SharedClient == SharedInit /\ [][SharedNext]_vars

(***************************************************************************)
(* Observations of a call: the steps it ran, the answer it got, and the    *)
(* parts of the URI of its request                                         *)
(***************************************************************************)
Count(s, x) == Cardinality({i \in 1..Len(s) : s[i] = x})
InCall == pc \in {"awaiting", "done"}
Method == call.v.method
Answered == pc = "done" /\ IsSome(response) /\ IsOk(response.v)
AnsweredStatus == response.v.v.status
IsErrorStatus(s) == s \in 400..599
Failed == pc = "done" /\ IsErr(result.v)
JsonMethod == Dispatch(call.v).fetch = "json"

\* the URI after "scheme://host/", its path segments, its query
UriRest(uri) == SubSeq(uri, NthOf(Positions(uri, {"/"}), 3) + 1, Len(uri))
UriPathSegments(uri) == Split(UpTo(UriRest(uri), {"?", "#"}), {"/"})
UriHasQuery(uri) == Positions(uri, {"?"}) # {}
UriHasFragment(uri) == Positions(uri, {"#"}) # {}
UriQuery(uri) == IF UriHasQuery(uri) THEN UpTo(Tail(From(uri, {"?"})), {"#"}) ELSE <<>>

\* the key=value pairs of a query, as written
QueryPairs(q) ==
  IF q = <<>> THEN <<>>
  ELSE LET ps == Split(q, {"&"}) IN
       [i \in 1..Len(ps) |->
          [key |-> UpTo(ps[i], {"="}),
           value |-> IF Positions(ps[i], {"="}) = {} THEN <<>> ELSE Tail(From(ps[i], {"="}))]]
RequestPairs == QueryPairs(UriQuery(request.v.uri))
PairsOf(key) == {i \in 1..Len(RequestPairs) : RequestPairs[i].key = key}
RawValue(key) == RequestPairs[CHOOSE i \in PairsOf(key) : TRUE].value

\* application/x-www-form-urlencoded decoding, as the server reads a value
HexVal(c) == (CHOOSE i \in 1..16 : HexDigits[i] = c) - 1
FormDecodeBytes(s) ==
  Concat([i \in 1..Len(s) |->
            IF s[i] = "%" THEN <<16 * HexVal(s[i + 1]) + HexVal(s[i + 2])>>
            ELSE IF (i > 1 /\ s[i - 1] = "%") \/ (i > 2 /\ s[i - 2] = "%") THEN <<>>
            ELSE IF s[i] = "+" THEN <<32>>
            ELSE <<Code(s[i])>>])
FormDecode(s) == from_utf8_lossy(FormDecodeBytes(s))

Join(ts, sep) == Concat([i \in 1..Len(ts) |-> IF i = 1 THEN ts[i] ELSE sep \o ts[i]])

\* the fields of the parameter struct of the call, and what the vendor
\* documents for the value of a present field
CallFields == Dispatch(call.v).params
FieldKeys == {CallFields[i].key : i \in 1..Len(CallFields)}
IsPresent(f) == IF f.ty \in {"DateSerde", "DateTimeSerde"} THEN TRUE ELSE IsSome(f.v)
ItemText(x) == IF IsVariant(x) THEN VariantName(x) ELSE x.string
ItemTexts(items) == [i \in 1..Len(items) |-> ItemText(items[i])]
DocumentedValue(f) ==
  CASE f.ty = "Option<uint>" -> Dec(f.v.v)
    [] f.ty = "Option<str>" -> f.v.v
    [] f.ty = "Option<enum>" -> VariantName(f.v.v)
    [] f.ty = "DateSerde" -> FormatDate(f.v)
    [] f.ty = "DateTimeSerde" -> FormatDateTime(f.v)
    [] f.ty = "serialize_comma_slice_opt" -> Join(ItemTexts(f.v.v), <<",">>)
OptionalFieldMethods ==
  {"sites_list", "site_energy", "site_energy_bulk", "site_power_details", "site_energy_details",
   "site_meters", "site_storage_data", "site_image", "site_env_benefits", "accounts_list"}
\* the present comma-list fields of the call whose items are enum values
IsEnumList(f) ==
  /\ f.ty = "serialize_comma_slice_opt"
  /\ IsSome(f.v)
  /\ \A i \in 1..Len(f.v.v) : IsVariant(f.v.v[i])

(***************************************************************************)
(* Properties                                                              *)
(***************************************************************************)

\* C1: whenever execute answers with a 4xx or 5xx status, the dispatch method
\* (JSON or image) returns Error::Api and no JSON decode is attempted; in
\* every call a decode is preceded by the status check.
C1_ErrorStatusIsApiErrorBeforeDecode ==
  /\ (Answered /\ IsErrorStatus(AnsweredStatus))
       => /\ IsErr(result.v)
          /\ result.v.e.kind = "Api"
          /\ Count(steps, "from_slice") = 0
  /\ \A i \in 1..Len(steps) :
       steps[i] = "from_slice" => \E k \in 1..(i - 1) : steps[k] = "error_for_status"

\* a JSON method answered 500 with a body that would decode: Error::Api
C1_Witness ==
  /\ Answered
  /\ Method = "version_current"
  /\ AnsweredStatus = 500
  /\ IsSome(response.v.v.body.json)
  /\ IsOk(from_slice(Dispatch(call.v).top, response.v.v.body))
  /\ result.v.e.kind = "Api"

\* C2: when the parameter struct does not serialize into a query string, the
\* call returns Error::UrlEncode with the serializer's error at once: execute
\* is not invoked and no request exists.
C2_EncodeFailureSendsNothing ==
  (InCall /\ IsErr(serde_urlencoded_to_string(CallFields)))
    => /\ pc = "done"
       /\ result.v = Err(Error_UrlEncode(serde_urlencoded_to_string(CallFields).e))
       /\ Count(steps, "execute") = 0
       /\ request = None
       /\ response = None

\* site_storage_data with serials given fails to encode
C2_Witness ==
  /\ Failed
  /\ Method = "site_storage_data"
  /\ IsErr(serde_urlencoded_to_string(CallFields))
  /\ result.v.e.kind = "UrlEncode"
  /\ steps = <<"to_string">>

C4_ApiErrorCarriesRawBody ==
  (Answered /\ IsErrorStatus(AnsweredStatus))
    => /\ IsErr(result.v)
       /\ result.v.e.kind = "Api"
       /\ result.v.e.status = AnsweredStatus
       /\ result.v.e.body = response.v.v.body.bytes

\* C5: when execute fails with a transport error e the call returns
\* Error::HttpRequest(e) with e unchanged, and runs neither the status check
\* nor a decode.
C5_TransportErrorIsPassedOn ==
  (pc = "done" /\ IsSome(response) /\ IsErr(response.v))
    => /\ result.v = Err(Error_HttpRequest(response.v.e))
       /\ Count(steps, "error_for_status") = 0
       /\ Count(steps, "from_slice") = 0

\* a timeout of the transport comes back as HttpRequest("timeout")
C5_Witness ==
  /\ pc = "done"
  /\ response = Some(Err("timeout"))
  /\ result.v.e = Error_HttpRequest("timeout")

\* C6: when the body of a response without error status does not parse into
\* the envelope of a JSON method, the call returns Error::Json carrying the
\* parse failure, never a success value.
C6_DecodeFailureIsJsonError ==
  (Answered /\ ~IsErrorStatus(AnsweredStatus) /\ JsonMethod
     /\ IsErr(from_slice(Dispatch(call.v).top, response.v.v.body)))
    => result.v = Err(Error_Json(from_slice(Dispatch(call.v).top, response.v.v.body).e))

\* version_current answered 200 with the body {} : the envelope key is missing
C6_Witness ==
  /\ Answered
  /\ Method = "version_current"
  /\ AnsweredStatus = 200
  /\ response.v.v.body = JsonBody(<<123,125>>, JObj(<<>>))
  /\ IsErr(result.v)
  /\ result.v.e.kind = "Json"

\* C7: for every parameter struct with optional fields and every combination
\* of present and absent fields, the query string of the request has no key
\* for an absent field and has the camelCase key of each present field exactly
\* once, with the documented token or format as its (form-decoded) value.
C7_OptionalFieldsInQuery ==
  (InCall /\ Method \in OptionalFieldMethods)
    => /\ IsSome(request)
       /\ \A k \in 1..Len(CallFields) :
            LET f == CallFields[k] IN
            IF IsPresent(f)
            THEN /\ Cardinality(PairsOf(f.key)) = 1
                 /\ FormDecode(RawValue(f.key)) = DocumentedValue(f)
            ELSE PairsOf(f.key) = {}

C9_SerialsAreRequested ==
  (InCall /\ Method = "site_storage_data" /\ IsSome(call.v.params.serials))
    => /\ IsSome(request)
       /\ Cardinality(PairsOf(<<"s","e","r","i","a","l","s">>)) = 1
       /\ FormDecode(RawValue(<<"s","e","r","i","a","l","s">>)) = Join(ItemTexts(call.v.params.serials.v), <<",">>)

\* C10: for every serial_number, equipment_data and equipment_changelog send
\* a request whose path is exactly equipment/{site_id}/{serial, every byte but
\* ASCII alphanumerics percent-encoded}/data.json (resp. changeLog.json); the
\* serial number adds no path segment, query or fragment.
C10_SerialIsOnePathSegment ==
  (InCall /\ Method \in {"equipment_data", "equipment_changelog"})
    => /\ IsSome(request)
       /\ UriPathSegments(request.v.uri)
            = <<<<"e","q","u","i","p","m","e","n","t">>, Dec(call.v.site[1]), utf8_percent_encode(call.v.serial),
                IF Method = "equipment_data" THEN <<"d","a","t","a",".","j","s","o","n">> ELSE <<"c","h","a","n","g","e","L","o","g",".","j","s","o","n">>>>
       /\ ~UriHasFragment(request.v.uri)
       /\ {RequestPairs[i].key : i \in 1..Len(RequestPairs)}
            = FieldKeys

(***************************************************************************)
(* The decoders and encoders on their own: serde_json::from_slice::<T> of  *)
(* a response type over a JSON value, outside of any request.  The call    *)
(* records the type and the JSON value, the result what the derived        *)
(* Deserialize impl returns.                                               *)
(***************************************************************************)
MaxItems == 2

ListKeys ==
  {"list", "data", "site", "siteEnergyList", "timeFrameEnergyList", "telemetries", "batteries"}
CountKeys == {"count", "total", "batteryCount"}
NoKey == ""
ItemStrings == {<<"a">>, <<"b", "1">>}
ListItems == SeqsUpTo(ItemStrings, MaxItems)
ListCounts == {0, 2}

\* {"<ck>": n, "<lk>": ["<item>", ...]}, the count left out when ck is NoKey
JStrings(items) == JArr([i \in 1..Len(items) |-> JStr(items[i])])
ListEnvelope(ck, n, lk, items) ==
  IF ck = NoKey THEN lk :> JStrings(items) ELSE (ck :> JNum(n)) @@ (lk :> JStrings(items))

\* from_slice::<T> applied to the JSON value j
Decode(ty, j) ==
  /\ pc = "idle"
  /\ call' = Some([method |-> "from_slice", ty |-> ty, json |-> j])
  /\ result' = Some(Deserialize(ty, j))
  /\ steps' = <<"from_slice">>
  /\ pc' = "done"
  /\ UNCHANGED <<client, request, response>>

DecodeList(ck, n, lk, items) == Decode(TList(TString), JObj(ListEnvelope(ck, n, lk, items)))

\* the texts of dates and times of day, valid and invalid ones
Years == {987, 2021, 2024}
Months == {2, 8, 12}
Days == {1, 10, 29, 30, 31}
Hours == {0, 8, 23}
Minutes == {0, 59}
Seconds == {0, 14, 59}
Digits2(n) == <<Digits[(n \div 10) + 1], Digits[(n % 10) + 1]>>
Digits4(n) == Digits2(n \div 100) \o Digits2(n % 100)
DateTexts == {Digits4(y) \o <<"-">> \o Digits2(m) \o <<"-">> \o Digits2(d) :
                y \in Years, m \in Months, d \in Days}
TimeTexts == {Digits2(h) \o <<":">> \o Digits2(mi) \o <<":">> \o Digits2(sec) :
                h \in Hours, mi \in Minutes, sec \in Seconds}
OddDateTimeTexts ==
  {<<>>, <<"2","0","2","1","-","8","-","1","0">>,
   <<"2","0","2","1","-","0","8","-","1","0","T","0","0",":","0","0",":","0","0">>,
   <<"2","0","2","1","-","0","8","-","1","0"," ","0","0",":","0","0">>,
   <<"2","0","2","1","-","0","8","-","1","0"," ","2","4",":","0","0",":","0","0">>,
   <<"1","0","/","0","8","/","2","0","2","1">>,
   <<"2","0","2","1","-","8","-","1">>,
   <<"2","0","2","1","-","0","8","-","1","0"," ","8",":","5",":","3">>,
   <<"2","0","2","1","-","0","8","-","1","0"," ","2","3",":","5","9",":","6","0">>,
   <<"2","0","2","1","-","0","8","-","1","0"," ","2","3",":","5","9",":","6","1">>,
   <<"2","0","2","1","-","0","8","-","1","0"," ","0","8",":","6","0",":","0","0">>,
   <<"2","0","2","1","-","0","8","-","1","0"," ","0","8",":","0","5",":","0","3","Z">>,
   <<"2","0","2","1","-","0","8","-","1","0"," ","a","b",":","c","d",":","e","f">>,
   <<"2","0","2","1","-","0","2","-","3","0"," ","0","8",":","0","5",":","0","3">>,
   <<"2","0","2","1","-","0","8","-","1","0"," ">>}
DateTimeTexts ==
  DateTexts \cup {d \o <<" ">> \o t : d \in DateTexts, t \in TimeTexts} \cup OddDateTimeTexts

\* site::DateValue {"date": "<s>", "value": 1}: a DateTimeSerde field
DecodeDateValue(s) ==
  Decode(TStruct("site", "DateValue"), JObj([date |-> JStr(s), value |-> JNum(1)]))
\* site::DataPeriod {"startDate": "<s>", "endDate": null}: DateTimeSerdeOpt fields
DecodeDataPeriod(s) ==
  Decode(TStruct("site", "DataPeriod"), JObj([startDate |-> JStr(s), endDate |-> JNull]))

\* serde_urlencoded::to_string of a parameter struct
Serialize(params) ==
  /\ pc = "idle"
  /\ call' = Some([method |-> "to_string", params |-> params])
  /\ result' = Some(serde_urlencoded_to_string(params))
  /\ steps' = <<"to_string">>
  /\ pc' = "done"
  /\ UNCHANGED <<client, request, response>>

RequestYears == {1, 987, 2021, 9999, 12021}
SerializeDates(y, m, d) ==
  /\ ValidDate(y, m, d)
  /\ Serialize(SiteTotalEnergy([start_date |-> NaiveDate(y, m, d), end_date |-> Date2]))
SerializeDateTimes(y, m, d, h, mi, sec) ==
  /\ ValidDate(y, m, d)
  /\ Serialize(DateTimeRange([start_time |-> NaiveDateTime(NaiveDate(y, m, d), h, mi, sec),
                              end_time |-> DateTime2]))

\* a date is written by DateSerde::serialize and the text read by str_to_date
RoundTripYears == {-1, 0, 1, 2021, 2024, 9999, 10000, 12021}
RoundTripSeconds == {0, 59, 60}
RoundTripDate(y, m, d) ==
  /\ pc = "idle"
  /\ ValidDate(y, m, d)
  /\ call' = Some([method |-> "date_round_trip", value |-> NaiveDate(y, m, d),
                   text |-> DateSerde_serialize(NaiveDate(y, m, d)).v.v])
  /\ result' = Some(str_to_date(DateSerde_serialize(NaiveDate(y, m, d)).v.v))
  /\ steps' = <<"serialize", "str_to_date">>
  /\ pc' = "done"
  /\ UNCHANGED <<client, request, response>>
\* a date-time is written by DateTimeSerde::serialize and the text read by
\* str_to_datetime
RoundTripDateTime(y, m, d, h, mi, sec) ==
  /\ pc = "idle"
  /\ ValidDate(y, m, d)
  /\ call' = Some([method |-> "datetime_round_trip",
                   value |-> NaiveDateTime(NaiveDate(y, m, d), h, mi, sec),
                   text |-> DateTimeSerde_serialize(NaiveDateTime(NaiveDate(y, m, d), h, mi, sec)).v.v])
  /\ result' = Some(str_to_datetime(
                      DateTimeSerde_serialize(NaiveDateTime(NaiveDate(y, m, d), h, mi, sec)).v.v))
  /\ steps' = <<"serialize", "str_to_datetime">>
  /\ pc' = "done"
  /\ UNCHANGED <<client, request, response>>

\* an enum value is serialized and the token deserialized again
RoundTrip(x) ==
  /\ pc = "idle"
  /\ call' = Some([method |-> "round_trip", value |-> x, token |-> serialize_enum(x)])
  /\ result' = Some(DeserializeEnum(x.enum, JStr(serialize_enum(x))))
  /\ steps' = <<"serialize", "deserialize">>
  /\ pc' = "done"
  /\ UNCHANGED <<client, request, response>>

MaxTokenLen == 2
TokenChars == {"W", "h", "k"}
OtherTexts == SeqsUpTo(TokenChars, MaxTokenLen) \cup {<<"M","W","h">>, <<"I","N","V","E","R","T","E","R">>}
RoundTripEnums == {"TimeUnit", "MeterType", "EnergyUnit", "PowerUnit"}
OpenEnums ==
  {"EnergyUnit", "PowerUnit", "Measurer", "EquipmentCommunicationMethod", "SensorType",
   "SensorMeasurement"}

RoundTripUnit(enum, i) == RoundTrip(Variant(enum, VariantIdents(enum)[i]))
RoundTripOther(enum, s) == RoundTrip(EnumOther(enum, s))

\* tokens the vendor might send: known ones, other spellings of them, new ones
EnumTexts ==
  OtherTexts \cup
  {<<"i","n","v","e","r","t","e","r">>, <<"E","T","H","E","R","N","E","T">>, <<"Z","I","G","B","E","E">>,
   <<"I","R","R","A","D","I","A","N","C","E">>, <<"I","r","r","a","d","i","a","n","c","e">>,
   <<"W","I","N","D","_","S","P","E","E","D">>,
   <<"S","e","n","s","o","r","D","i","f","f","u","s","e","d","I","r","r","a","d","i","a","n","c","e">>,
   <<"S","e","n","s","o","r","W","i","n","d","S","p","e","e","d">>}

\* an enum-typed field is read from the JSON string s
DecodeEnum(enum, s) == Decode(TEnum(enum), JStr(s))

\* payloads as the vendor sends them, by the name of their root key, and the
\* envelope type each is decoded as
Sample(name) ==
  CASE name = "version" -> VersionJson
    [] name = "reporters" -> ReportersJson
    [] name = "details" ->
         JObj([details |-> JObj([id |-> JNum(5),
                     name |-> JStr(<<"R","o","o","f">>),
                     accountId |-> JNum(12),
                     status |-> JStr(<<"A","c","t","i","v","e">>),
                     peakPower |-> JNum(9),
                     lastUpdateTime |-> JStr(<<"2","0","2","1","-","0","8","-","1","0">>),
                     currency |-> JStr(<<"E","U","R">>),
                     installationDate |-> JStr(<<"2","0","2","1","-","0","8","-","1","0"," ","0","0",":","0","0",":","0","0">>),
                     ptoDate |-> JNull,
                     notes |-> JStr(<<>>),
                     type |-> JStr(<<"O","p","t","i","m","i","z","e","r","s">>),
                     location |-> JObj([country |-> JStr(<<"N","L">>),
                           city |-> JStr(<<"E","d","e">>),
                           address |-> JStr(<<"A"," ","1">>),
                           address2 |-> JStr(<<>>),
                           zip |-> JStr(<<"6","7","1","1">>),
                           timeZone |-> JStr(<<"C","E","T">>),
                           countryCode |-> JStr(<<"N","L">>)]),
                     primaryModule |-> JObj([manufacturerName |-> JStr(<<"L","G">>),
                           modelName |-> JStr(<<"N","1">>),
                           maximumPower |-> JNum(300),
                           temperatureCoef |-> JNum(0)]),
                     alertQuantity |-> JNum(0),
                     alertSeverity |-> JStr(<<"N","O","N","E">>),
                     uris |-> JObj([DETAILS |-> JStr(<<"/","s","i","t","e","/","5","/","d","e","t","a","i","l","s">>),
                           DATA_PERIOD |-> JStr(<<"/","s","i","t","e","/","5","/","d","a","t","a","P","e","r","i","o","d">>),
                           OVERVIEW |-> JStr(<<"/","s","i","t","e","/","5","/","o","v","e","r","v","i","e","w">>)]),
                     publicSettings |-> JObj([name |-> JNull,
                           isPublic |-> JBool(FALSE)])])])
SampleType(name) ==
  CASE name = "version" -> TStruct("version", "CurrentTop")
    [] name = "reporters" -> TStruct("equipment", "ListTop")
    [] name = "details" -> TStruct("site", "DetailsTop")
SampleNames == {"version", "reporters", "details"}

\* the objects of a JSON value, each by the keys that lead to it; an array
\* stands for its first element
RECURSIVE ObjectPaths(_)
ObjectPaths(j) ==
  CASE j.j = "obj" ->
         {<<>>} \cup UNION {{<<k>> \o p : p \in ObjectPaths(j.v[k])} : k \in DOMAIN j.v}
    [] j.j = "arr" -> IF j.v = <<>> THEN {} ELSE ObjectPaths(j.v[1])
    [] OTHER -> {}
RECURSIVE ObjectAt(_, _)
ObjectAt(j, path) ==
  IF j.j = "arr" THEN ObjectAt(j.v[1], path)
  ELSE IF path = <<>> THEN j
  ELSE ObjectAt(j.v[Head(path)], Tail(path))
\* j with the member key: val added to, or the member key taken out of, the
\* object at path
RECURSIVE AddMember(_, _, _, _)
AddMember(j, path, key, val) ==
  IF j.j = "arr" THEN JArr([j.v EXCEPT ![1] = AddMember(@, path, key, val)])
  ELSE IF path = <<>> THEN JObj((key :> val) @@ j.v)
  ELSE JObj([j.v EXCEPT ![Head(path)] = AddMember(@, Tail(path), key, val)])
RECURSIVE RemoveMember(_, _, _)
RemoveMember(j, path, key) ==
  IF j.j = "arr" THEN JArr([j.v EXCEPT ![1] = RemoveMember(@, path, key)])
  ELSE IF path = <<>> THEN JObj([k \in DOMAIN j.v \ {key} |-> j.v[k]])
  ELSE JObj([j.v EXCEPT ![Head(path)] = RemoveMember(@, Tail(path), key)])

NewKeys == {"extra", "Id", "NAME"}
NewValue(n) ==
  CASE n = 1 -> JNull
    [] n = 2 -> JStr(<<"x">>)
    [] n = 3 -> JObj([id |-> JNum(1), list |-> JArr(<<JBool(TRUE)>>)])
NewValues == 1..3

\* from_slice::<T> of a sample payload changed in one place
DecodeChanged(name, kind, path, key, j) ==
  /\ pc = "idle"
  /\ call' = Some([method |-> "from_slice", ty |-> SampleType(name), json |-> j,
                    sample |-> name, change |-> kind, path |-> path, key |-> key])
  /\ result' = Some(Deserialize(SampleType(name), j))
  /\ steps' = <<"from_slice">>
  /\ pc' = "done"
  /\ UNCHANGED <<client, request, response>>
DecodeWithNewMember(name, path, key, n) ==
  /\ key \notin DOMAIN ObjectAt(Sample(name), path).v
  /\ DecodeChanged(name, "add", path, key, AddMember(Sample(name), path, key, NewValue(n)))
DecodeWithoutMember(name, path, key) ==
  DecodeChanged(name, "remove", path, key, RemoveMember(Sample(name), path, key))

\* a codec is applied when no call is under way
\* the value the vendor's documentation shows under each top-level key of a
\* response, cut down to a few items
RootValue(key) ==
  CASE key = "version" -> VersionJson.v.version
    [] key = "reporters" -> ReportersJson.v.reporters
    [] key = "details" -> Sample("details").v.details
    [] key = "supported" ->
         JArr(<<JObj([release |-> JStr(<<"1",".","0",".","0">>)])>>)
    [] key = "sites" ->
         JObj([count |-> JNum(0),
               list |-> JArr(<<>>)])
    [] key = "dataPeriod" ->
         JObj([startDate |-> JStr(<<"2","0","2","1","-","0","8","-","1","0">>),
               endDate |-> JStr(<<"2","0","2","1","-","1","2","-","3","1">>)])
    [] key = "datePeriodList" ->
         JObj([count |-> JNum(0),
               list |-> JArr(<<>>)])
    [] key = "energy" ->
         JObj([timeUnit |-> JStr(<<"D","A","Y">>),
               unit |-> JStr(<<"W","h">>),
               values |-> JArr(<<JObj([date |-> JStr(<<"2","0","2","1","-","0","8","-","1","0"," ","0","0",":","0","0",":","0","0">>),
                       value |-> JNum(7)]), JObj([date |-> JStr(<<"2","0","2","1","-","0","8","-","1","1"," ","0","0",":","0","0",":","0","0">>),
                       value |-> JNull])>>)])
    [] key = "sitesEnergy" ->
         JObj([timeUnit |-> JStr(<<"D","A","Y">>),
               unit |-> JStr(<<"W","h">>),
               count |-> JNum(1),
               siteEnergyList |-> JArr(<<JObj([siteId |-> JNum(5),
                       energyValues |-> JObj([values |-> JArr(<<JObj([date |-> JStr(<<"2","0","2","1","-","0","8","-","1","0"," ","0","0",":","0","0",":","0","0">>),
                                     value |-> JNum(7)]), JObj([date |-> JStr(<<"2","0","2","1","-","0","8","-","1","1"," ","0","0",":","0","0",":","0","0">>),
                                     value |-> JNull])>>)])])>>)])
    [] key = "timeFrameEnergy" ->
         JObj([energy |-> JNum(7),
               unit |-> JStr(<<"W","h">>),
               measuredBy |-> JStr(<<"I","N","V","E","R","T","E","R">>),
               startLifetimeEnergy |-> JObj([date |-> JStr(<<"2","0","2","1","-","0","8","-","1","0">>),
                     energy |-> JNum(5),
                     unit |-> JStr(<<"W","h">>)]),
               endLifetimeEnergy |-> JObj([date |-> JStr(<<"2","0","2","1","-","1","2","-","3","1">>),
                     energy |-> JNum(5),
                     unit |-> JStr(<<"W","h">>)])])
    [] key = "timeFrameEnergyList" ->
         JObj([count |-> JNum(0),
               list |-> JArr(<<>>)])
    [] key = "power" ->
         JObj([timeUnit |-> JStr(<<"Q","U","A","R","T","E","R","_","O","F","_","A","N","_","H","O","U","R">>),
               unit |-> JStr(<<"W">>),
               values |-> JArr(<<JObj([date |-> JStr(<<"2","0","2","1","-","0","8","-","1","0"," ","0","0",":","0","0",":","0","0">>),
                       value |-> JNum(7)]), JObj([date |-> JStr(<<"2","0","2","1","-","0","8","-","1","1"," ","0","0",":","0","0",":","0","0">>),
                       value |-> JNull])>>)])
    [] key = "powerDateValuesList" ->
         JObj([timeUnit |-> JStr(<<"Q","U","A","R","T","E","R","_","O","F","_","A","N","_","H","O","U","R">>),
               unit |-> JStr(<<"W">>),
               count |-> JNum(0),
               siteEnergyList |-> JArr(<<>>)])
    [] key = "overview" ->
         JObj([lastUpdateTime |-> JStr(<<"2","0","2","1","-","0","8","-","1","0"," ","1","2",":","0","0",":","0","0">>),
               lifeTimeData |-> JObj([energy |-> JNum(9),
                     revenue |-> JNum(2)]),
               lastYearData |-> JObj([energy |-> JNum(8)]),
               lastMonthData |-> JObj([energy |-> JNum(3)]),
               lastDayData |-> JObj([energy |-> JNum(1)]),
               currentPower |-> JObj([power |-> JNum(4)]),
               measuredBy |-> JStr(<<"I","N","V","E","R","T","E","R">>)])
    [] key = "sitesOverviews" ->
         JObj([count |-> JNum(1),
               list |-> JArr(<<JObj([siteId |-> JNum(5),
                       siteOverview |-> JObj([lastUpdateTime |-> JStr(<<"2","0","2","1","-","0","8","-","1","0"," ","1","2",":","0","0",":","0","0">>),
                             lifeTimeData |-> JObj([energy |-> JNum(9),
                                   revenue |-> JNum(2)]),
                             lastYearData |-> JObj([energy |-> JNum(8)]),
                             lastMonthData |-> JObj([energy |-> JNum(3)]),
                             lastDayData |-> JObj([energy |-> JNum(1)]),
                             currentPower |-> JObj([power |-> JNum(4)]),
                             measuredBy |-> JStr(<<"I","N","V","E","R","T","E","R">>)])])>>)])
    [] key = "powerDetails" ->
         JObj([timeUnit |-> JStr(<<"D","A","Y">>),
               unit |-> JStr(<<"W">>),
               meters |-> JArr(<<JObj([type |-> JStr(<<"P","r","o","d","u","c","t","i","o","n">>),
                       values |-> JArr(<<JObj([date |-> JStr(<<"2","0","2","1","-","0","8","-","1","0"," ","0","0",":","0","0",":","0","0">>),
                               value |-> JNum(7)]), JObj([date |-> JStr(<<"2","0","2","1","-","0","8","-","1","1"," ","0","0",":","0","0",":","0","0">>),
                               value |-> JNull])>>)])>>)])
    [] key = "energyDetails" ->
         JObj([timeUnit |-> JStr(<<"D","A","Y">>),
               unit |-> JStr(<<"W","h">>),
               meters |-> JArr(<<>>)])
    [] key = "siteCurrentPowerFlow" ->
         JObj([unit |-> JStr(<<"k","W">>),
               connections |-> JArr(<<JObj([from |-> JStr(<<"G","R","I","D">>),
                       to |-> JStr(<<"L","o","a","d">>)])>>),
               GRID |-> JObj([status |-> JStr(<<"A","c","t","i","v","e">>),
                     currentPower |-> JNum(1)]),
               LOAD |-> JObj([status |-> JStr(<<"A","c","t","i","v","e">>),
                     currentPower |-> JNum(1)])])
    [] key = "storageData" ->
         JObj([count |-> JNum(0),
               list |-> JArr(<<>>)])
    [] key = "envBenefits" ->
         JObj([gasEmissionSaved |-> JObj([units |-> JStr(<<"k","g">>),
                     co2 |-> JNum(1),
                     so2 |-> JNum(2),
                     nox |-> JNum(3)]),
               treesPlanted |-> JNum(4),
               lightBulbs |-> JNum(5)])
    [] key = "Inventory" ->
         JObj([inverters |-> JArr(<<>>),
               meters |-> JArr(<<>>),
               sensors |-> JArr(<<>>),
               gateways |-> JArr(<<>>),
               batteries |-> JArr(<<>>)])
    [] key = "meterEnergyDetails" ->
         JObj([timeUnit |-> JStr(<<"D","A","Y">>),
               unit |-> JStr(<<"W","h">>),
               meters |-> JArr(<<>>)])
    [] key = "siteSensors" ->
         JObj([count |-> JNum(0),
               list |-> JArr(<<>>)])
    [] key = "SiteSensors" ->
         JObj([count |-> JNum(0),
               list |-> JArr(<<>>)])
    [] key = "data" ->
         JObj([count |-> JNum(0),
               list |-> JArr(<<>>)])
    [] key = "ChangeLog" ->
         JObj([count |-> JNum(0),
               list |-> JArr(<<>>)])
    [] key = "accounts" ->
         JObj([count |-> JNum(0),
               list |-> JArr(<<>>)])


\* the top-level keys of the responses of the JSON endpoints
RootKeys ==
  {"version", "supported", "sites", "details", "dataPeriod", "datePeriodList", "energy",
   "sitesEnergy", "timeFrameEnergy", "timeFrameEnergyList", "power", "powerDateValuesList",
   "overview", "sitesOverviews", "powerDetails", "energyDetails", "siteCurrentPowerFlow",
   "storageData", "envBenefits", "Inventory", "meterEnergyDetails", "siteSensors",
   "reporters", "SiteSensors", "data", "ChangeLog", "accounts"}
Envelope(keys) == JObj([k \in keys |-> RootValue(k)])

JsonMethods ==
  {"version_current", "version_supported", "sites_list", "site_details", "site_data_period",
   "site_data_period_bulk", "site_energy", "site_energy_bulk", "site_time_frame_energy",
   "site_time_frame_energy_bulk", "site_power", "site_power_bulk", "site_overview",
   "site_overview_bulk", "site_power_details", "site_energy_details",
   "site_current_power_flow", "site_storage_data", "site_env_benefits", "site_inventory",
   "site_meters", "site_sensor_data", "equipment_list", "equipment_sensors",
   "equipment_data", "equipment_changelog", "accounts_list"}
MethodInvocation(m) == CHOOSE i \in Invocations : i.method = m

\* the decode of fetch_json and the .map(|res| res.field) of a dispatch
\* method, on a body that is an object with the given top-level keys
DecodeEnvelope(m, k1, k2) ==
  /\ pc = "idle"
  /\ call' = Some([method |-> m, keys |-> {k1, k2} \ {NoKey}])
  /\ result' = Some(decoded(Deserialize(Dispatch(MethodInvocation(m)).top, Envelope({k1, k2} \ {NoKey})),
                            Dispatch(MethodInvocation(m)).unwrap))
  /\ steps' = <<"from_slice">>
  /\ pc' = "done"
  /\ UNCHANGED <<client, request, response>>


\* one telemetry of an inverter (api/response/equipment.rs Telemetry) with the
\* given inverterMode and operationMode
TelemetryJson(date, inverterMode, operationMode) ==
  JObj([date |-> JStr(date),
        totalActivePower |-> JNum(3),
        dcVoltage |-> JNull,
        powerLimit |-> JNum(100),
        totalEnergy |-> JNum(9),
        temperature |-> JNum(40),
        inverterMode |-> inverterMode,
        operationMode |-> operationMode,
        L1Data |-> JObj([acCurrent |-> JNum(1),
              acVoltage |-> JNum(230),
              acFrequency |-> JNum(50),
              apparentPower |-> JNum(3),
              activePower |-> JNum(3),
              reactivePower |-> JNum(0),
              cosPhi |-> JNum(1)])])

\* one telemetry of a battery (api/response/site.rs BatteryTelemetry) with the
\* given batteryState
BatteryTelemetryJson(timeStamp, batteryState) ==
  JObj([timeStamp |-> JStr(timeStamp),
        power |-> JNum(-5),
        batteryState |-> batteryState,
        lifeTimeEnergyCharged |-> JNum(8),
        lifeTimeEnergyDischarged |-> JNum(7),
        fullPackEnergyAvailable |-> JNum(6),
        internalTemp |-> JNum(20),
        ACGridCharging |-> JNum(0),
        stateOfCharge |-> JNum(90)])

\* a response of the endpoint that carries the enum, with val where the value
\* of the enum stands; in the lists the item with val follows a well-formed one
EnumPayload(enum, val) ==
  CASE enum = "SiteStatus" -> AddMember(Envelope({"details"}), <<"details">>, "status", val)
    [] enum = "TimeUnit" -> AddMember(Envelope({"energy"}), <<"energy">>, "timeUnit", val)
    [] enum = "MeterType" -> AddMember(Envelope({"powerDetails"}), <<"powerDetails", "meters">>, "type", val)
    [] enum = "PowerFlowElement" ->
         AddMember(Envelope({"siteCurrentPowerFlow"}), <<"siteCurrentPowerFlow", "connections">>, "to", val)
    [] enum = "PowerFlowElementStatus" ->
         AddMember(Envelope({"siteCurrentPowerFlow"}), <<"siteCurrentPowerFlow", "LOAD">>, "status", val)
    [] enum = "GasEmissionUnit" ->
         AddMember(Envelope({"envBenefits"}), <<"envBenefits", "gasEmissionSaved">>, "units", val)
    [] enum = "MeterForm" ->
         JObj([Inventory |-> JObj([inverters |-> JArr(<<>>),
                     meters |-> JArr(<<JObj([name |-> JStr(<<"M","1">>),
                                  type |-> JStr(<<"P","r","o","d","u","c","t","i","o","n">>),
                                  form |-> JStr(<<"p","h","y","s","i","c","a","l">>)]),
                            JObj([name |-> JStr(<<"M","2">>),
                                  type |-> JStr(<<"C","o","n","s","u","m","p","t","i","o","n">>),
                                  form |-> val])>>),
                     sensors |-> JArr(<<>>),
                     gateways |-> JArr(<<>>),
                     batteries |-> JArr(<<>>)])])
    [] enum = "InverterMode" ->
         JObj([data |-> JObj([count |-> JNum(2),
                     telemetries |-> JArr(<<TelemetryJson(<<"2","0","2","1","-","0","8","-","1","0"," ","0","0",":","0","0",":","0","0">>, JStr(<<"M","P","P","T">>), JNum(0)),
                            TelemetryJson(<<"2","0","2","1","-","0","8","-","1","0"," ","0","0",":","0","5",":","0","0">>, val, JNum(0))>>)])])
    [] enum = "OperationMode" ->
         JObj([data |-> JObj([count |-> JNum(2),
                     telemetries |-> JArr(<<TelemetryJson(<<"2","0","2","1","-","0","8","-","1","0"," ","0","0",":","0","0",":","0","0">>, JStr(<<"M","P","P","T">>), JNum(0)),
                            TelemetryJson(<<"2","0","2","1","-","0","8","-","1","0"," ","0","0",":","0","5",":","0","0">>, JStr(<<"M","P","P","T">>), val)>>)])])
    [] enum = "BatteryState" ->
         JObj([storageData |-> JObj([batteryCount |-> JNum(1),
                     batteries |-> JArr(<<JObj([serialNumber |-> JStr(<<"B","1">>),
                                  nameplate |-> JNum(5),
                                  modelNumber |-> JStr(<<"M">>),
                                  telemetryCount |-> JNum(2),
                                  telemetries |-> JArr(<<BatteryTelemetryJson(<<"2","0","2","1","-","0","8","-","1","0"," ","0","0",":","0","0",":","0","0">>, JNum(3)),
                                         BatteryTelemetryJson(<<"2","0","2","1","-","0","8","-","1","0"," ","0","0",":","0","5",":","0","0">>, val)>>)])>>)])])

\* the enums of the responses that have no catch-all variant
ClosedEnums ==
  {"SiteStatus", "TimeUnit", "MeterType", "MeterForm", "InverterMode", "PowerFlowElement",
   "PowerFlowElementStatus", "GasEmissionUnit", "OperationMode", "BatteryState"}

\* the operation whose response carries the enum
EnumMethod(enum) ==
  CASE enum = "SiteStatus" -> "site_details"
    [] enum = "TimeUnit" -> "site_energy"
    [] enum = "MeterType" -> "site_power_details"
    [] enum \in {"PowerFlowElement", "PowerFlowElementStatus"} -> "site_current_power_flow"
    [] enum = "GasEmissionUnit" -> "site_env_benefits"
    [] enum = "MeterForm" -> "site_inventory"
    [] enum \in {"InverterMode", "OperationMode"} -> "equipment_data"
    [] enum = "BatteryState" -> "site_storage_data"

\* a token with the case of its first letter changed
OtherCase(enum) ==
  CASE enum \in {"SiteStatus", "PowerFlowElementStatus"} -> <<"a","c","t","i","v","e">>
    [] enum = "TimeUnit" -> <<"d","a","y">>
    [] enum = "MeterType" -> <<"p","r","o","d","u","c","t","i","o","n">>
    [] enum = "MeterForm" -> <<"P","h","y","s","i","c","a","l">>
    [] enum = "InverterMode" -> <<"m","p","p","t">>
    [] enum = "PowerFlowElement" -> <<"L","O","A","D">>
    [] enum = "GasEmissionUnit" -> <<"K","g">>

\* the values tried in the place of an enum: the first and the last value it
\* has (1, 2), and values it does not have (3 and up)
EnumCases == 1..7
KnownCases == {1, 2}
EnumValue(enum, c) ==
  IF IsRepr(enum)
  THEN CASE c = 1 -> JNum(0)
         [] c = 2 -> JNum(IF enum = "OperationMode" THEN 2 ELSE 4)
         [] c = 3 -> JNum(IF enum = "OperationMode" THEN 3 ELSE 5)
         [] c = 4 -> JNum(255)
         [] c = 5 -> JNum(256)
         [] c = 6 -> JStr(<<"0">>)
         [] c = 7 -> JNull
  ELSE CASE c = 1 -> JStr(Tokens(enum)[1])
         [] c = 2 -> JStr(Tokens(enum)[Len(Tokens(enum))])
         [] c = 3 -> JStr(<<"U","n","k","n","o","w","n">>)
         [] c = 4 -> JStr(OtherCase(enum))
         [] c = 5 -> JStr(<<>>)
         [] c = 6 -> JNum(0)
         [] c = 7 -> JNull

\* serde_json::from_slice of a response in which one value of a closed enum
\* is the value of case c
DecodeEnumValue(enum, c) ==
  /\ pc = "idle"
  /\ call' = Some([method |-> EnumMethod(enum), enum |-> enum, case |-> c])
  /\ result' = Some(decoded(Deserialize(Dispatch(MethodInvocation(EnumMethod(enum))).top,
                                        EnumPayload(enum, EnumValue(enum, c))),
                            Dispatch(MethodInvocation(EnumMethod(enum))).unwrap))
  /\ steps' = <<"from_slice">>
  /\ pc' = "done"
  /\ UNCHANGED <<client, request, response>>

\* two clients that differ at most in the key are written with {:?}, by the
\* Debug impl of the crate named
DebugKeys == ApiKeys \cup {<<>>, <<"<","h","i","d","d","e","n",">">>}
Crates == {"solaredge", "solaredge/solaredge"}
FormatClients(crate, k1, k2) ==
  /\ pc = "idle"
  /\ call' = Some([method |-> "fmt", crate |-> crate, api_keys |-> <<k1, k2>>])
  /\ result' = Some(Ok(IF crate = "solaredge"
                       THEN <<Client_fmt(new_with_client("adapter", k1)),
                              Client_fmt(new_with_client("adapter", k2))>>
                       ELSE <<Legacy_Client_fmt(new_with_client("adapter", k1)),
                              Legacy_Client_fmt(new_with_client("adapter", k2))>>))
  /\ steps' = <<"fmt", "fmt">>
  /\ pc' = "done"
  /\ UNCHANGED <<client, request, response>>

\* the statuses around the bounds of the classes of http::StatusCode
BoundaryStatuses == {100, 200, 304, 399, 400, 499, 500, 599, 600}
FinishMethods == {"version_current", "equipment_list", "site_image", "site_installer_image"}

\* what a dispatch method makes of a response that execute returned: the
\* status check, then the decode or the bytes
Finish(m, status, body) ==
  /\ pc = "idle"
  /\ call' = Some([method |-> m, status |-> status])
  /\ response' = Some(Ok(Response(status, body)))
  /\ result' = Some(fetch_finish(Dispatch(MethodInvocation(m)), Ok(Response(status, body))).r)
  /\ steps' = fetch_finish(Dispatch(MethodInvocation(m)), Ok(Response(status, body))).steps
  /\ pc' = "done"
  /\ UNCHANGED <<client, request>>

CodecNext ==
  \/ /\ pc = "idle"
     /\ \E crate \in Crates, k1 \in DebugKeys, k2 \in DebugKeys : FormatClients(crate, k1, k2)
  \/ /\ pc = "idle"
     /\ \E y \in RoundTripYears, m \in Months, d \in Days : RoundTripDate(y, m, d)
  \/ /\ pc = "idle"
     /\ \E y \in RoundTripYears, m \in Months, d \in Days, h \in Hours, mi \in Minutes,
           sec \in RoundTripSeconds : RoundTripDateTime(y, m, d, h, mi, sec)
  \/ /\ pc = "idle"
     /\ \E enum \in ClosedEnums, c \in EnumCases : DecodeEnumValue(enum, c)
  \/ /\ pc = "idle"
     /\ \E ck \in CountKeys \cup {NoKey}, n \in ListCounts, lk \in ListKeys, items \in ListItems :
          DecodeList(ck, n, lk, items)
  \/ /\ pc = "idle"
     /\ \E s \in DateTimeTexts : DecodeDateValue(s)
  \/ /\ pc = "idle"
     /\ \E s \in DateTimeTexts : DecodeDataPeriod(s)
  \/ /\ pc = "idle"
     /\ \E enum \in RoundTripEnums : \E i \in 1..Len(VariantIdents(enum)) : RoundTripUnit(enum, i)
  \/ /\ pc = "idle"
     /\ \E enum \in RoundTripEnums \cap OpenEnums, s \in OtherTexts : RoundTripOther(enum, s)
  \/ /\ pc = "idle"
     /\ \E enum \in OpenEnums, s \in EnumTexts : DecodeEnum(enum, s)
  \/ /\ pc = "idle"
     /\ \E name \in SampleNames : \E path \in ObjectPaths(Sample(name)) :
          \E key \in NewKeys, n \in NewValues : DecodeWithNewMember(name, path, key, n)
  \/ /\ pc = "idle"
     /\ \E name \in SampleNames : \E path \in ObjectPaths(Sample(name)) :
          \E key \in DOMAIN ObjectAt(Sample(name), path).v : DecodeWithoutMember(name, path, key)
  \/ /\ pc = "idle"
     /\ \E y \in RequestYears, m \in Months, d \in Days : SerializeDates(y, m, d)
  \/ /\ pc = "idle"
     /\ \E y \in RequestYears, m \in Months, d \in Days, h \in Hours, mi \in Minutes, sec \in Seconds :
          SerializeDateTimes(y, m, d, h, mi, sec)
  \/ /\ pc = "idle"
     /\ \E m \in JsonMethods, k1 \in RootKeys \cup {NoKey}, k2 \in RootKeys \cup {NoKey} :
          DecodeEnvelope(m, k1, k2)
  \/ /\ pc = "idle"
     /\ \E m \in FinishMethods, status \in BoundaryStatuses, body \in Bodies : Finish(m, status, body)
  \/ Return

CodecSpec == Init /\ [][CodecNext]_vars

Decoded == pc = "done" /\ call.v.method = "from_slice"
DecodedType == call.v.ty
DecodedJson == call.v.json

\* C11: a List<T> envelope that gives the items under any one of the seven
\* list keys, and the count under count, total or batteryCount or not at all,
\* decodes to the items in order and to count = Some(n), or None when there
\* is no count: the value does not depend on which alias is used.
C11_ListAliasesDecodeAlike ==
  (Decoded /\ DecodedType = TList(TString)) =>
    LET obj == DecodedJson.v
        lk == CHOOSE k \in ListKeys : k \in DOMAIN obj
        cks == CountKeys \cap DOMAIN obj
    IN result.v = Ok(<<[name |-> "count",
                        v |-> IF cks = {} THEN None
                              ELSE Some(obj[CHOOSE k \in cks : TRUE].v)],
                       [name |-> "list",
                        v |-> [i \in 1..Len(obj[lk].v) |-> obj[lk].v[i].v]]>>)

\* {"count":2,"batteries":[a,b]} has been decoded
C11_Witness ==
  /\ Decoded
  /\ DecodedType = TList(TString)
  /\ DOMAIN DecodedJson.v = {"count", "batteries"}
  /\ DecodedJson.v["count"] = JNum(2)
  /\ Len(DecodedJson.v["batteries"].v) = 2
  /\ IsOk(result.v)
  /\ Get(result.v.v, "count") = Some(2)
  /\ Len(Get(result.v.v, "list")) = 2

\* the number written at the places a..b of a text of digits
RECURSIVE NumberAt(_, _, _)
NumberAt(s, a, b) == IF b < a THEN 0 ELSE 10 * NumberAt(s, a, b - 1) + DigitVal(s[b])
DigitsAt(s, places) == \A i \in places : IsDigit(s[i])
\* s is YYYY-MM-DD and names a day of the calendar
IsDateText(s) ==
  /\ Len(s) = 10
  /\ DigitsAt(s, {1, 2, 3, 4, 6, 7, 9, 10})
  /\ s[5] = "-" /\ s[8] = "-"
  /\ ValidDate(NumberAt(s, 1, 4), NumberAt(s, 6, 7), NumberAt(s, 9, 10))
\* s is HH:MM:SS and names a time of the day
IsTimeText(s) ==
  /\ Len(s) = 8
  /\ DigitsAt(s, {1, 2, 4, 5, 7, 8})
  /\ s[3] = ":" /\ s[6] = ":"
  /\ NumberAt(s, 1, 2) <= 23 /\ NumberAt(s, 4, 5) <= 59 /\ NumberAt(s, 7, 8) <= 59
IsDateTimeText(s) ==
  /\ Len(s) = 19
  /\ IsDateText(SubSeq(s, 1, 10))
  /\ s[11] = " "
  /\ IsTimeText(SubSeq(s, 12, 19))
DateOfText(s) == NaiveDate(NumberAt(s, 1, 4), NumberAt(s, 6, 7), NumberAt(s, 9, 10))
\* the date-time a text in one of the two forms stands for
DateTimeOfText(s) ==
  IF Len(s) = 10 THEN NaiveDateTime(DateOfText(s), 0, 0, 0)
  ELSE NaiveDateTime(DateOfText(s), NumberAt(s, 12, 13), NumberAt(s, 15, 16), NumberAt(s, 18, 19))
\* the text given for the date-time field of the decoded DateValue / DataPeriod
DateTimeFieldText ==
  IF DecodedType = TStruct("site", "DateValue") THEN DecodedJson.v["date"].v
  ELSE DecodedJson.v["startDate"].v
DateTimeFieldDecoded ==
  /\ Decoded
  /\ DecodedType \in {TStruct("site", "DateValue"), TStruct("site", "DataPeriod")}

\* C12: a date-time field given as "YYYY-MM-DD HH:MM:SS" decodes to that date
\* and time, and given as a bare "YYYY-MM-DD" decodes to 00:00:00 of that
\* date, through DateTimeSerde and through DateTimeSerdeOpt (as Some).
C12_DateTimeOrBareDate ==
  (DateTimeFieldDecoded /\ (IsDateTimeText(DateTimeFieldText) \/ IsDateText(DateTimeFieldText)))
    => /\ IsOk(result.v)
       /\ IF DecodedType = TStruct("site", "DateValue")
          THEN Get(result.v.v, "date") = DateTimeOfText(DateTimeFieldText)
          ELSE Get(result.v.v, "start_date") = Some(DateTimeOfText(DateTimeFieldText))

\* "2021-08-10" has been decoded to 2021-08-10 00:00:00
C12_Witness ==
  /\ DateTimeFieldDecoded
  /\ DecodedType = TStruct("site", "DateValue")
  /\ DateTimeFieldText = <<"2","0","2","1","-","0","8","-","1","0">>
  /\ IsOk(result.v)
  /\ Get(result.v.v, "date") = NaiveDateTime(NaiveDate(2021, 8, 10), 0, 0, 0)

Serialized == pc = "done" /\ call.v.method = "to_string"
SerializedParams == call.v.params
SerializedPairs == QueryPairs(result.v.v)
\* YYYY-MM-DD and HH:MM:SS written digit by digit
DateText(d) == Digits4(d.y) \o <<"-">> \o Digits2(d.m) \o <<"-">> \o Digits2(d.d)
DateTimeText(t) ==
  DateText(t.date) \o <<" ">> \o Digits2(t.h) \o <<":">> \o Digits2(t.mi) \o <<":">> \o Digits2(t.s)
HasFourDigitYear(f) ==
  IF f.ty = "DateSerde" THEN f.v.y \in 0..9999 ELSE f.v.date.y \in 0..9999

RoundTripped == pc = "done" /\ call.v.method = "round_trip"
RoundTripValue == call.v.value
IsOtherValue(x) == "other" \in DOMAIN x
\* the deserialized value y is the variant that the serialized value x is
SameVariant(x, y) ==
  IF IsOtherValue(x) THEN y = x
  ELSE /\ "index" \in DOMAIN y
       /\ y.enum = x.enum
       /\ VariantIdents(x.enum)[y.index] = x.name
KnownToken(enum, s) == \E i \in 1..Len(Tokens(enum)) : Tokens(enum)[i] = s

\* C14 as stated: every value of TimeUnit, MeterType, EnergyUnit and
\* PowerUnit, the Other(s) values included, comes back from serialize then
\* deserialize as the same variant.
C14_RoundTripEveryValue ==
  RoundTripped => (IsOk(result.v) /\ SameVariant(RoundTripValue, result.v.v))

\* C14 amended: every unit variant, and every Other(s) whose s is not a known
\* token of the enum, comes back as the same variant; Other(s) with s a known
\* token comes back as the unit variant of that token.
C14_RoundTripExceptKnownTokenInOther ==
  RoundTripped =>
    /\ IsOk(result.v)
    /\ IF IsOtherValue(RoundTripValue) /\ KnownToken(RoundTripValue.enum, RoundTripValue.other)
       THEN /\ "index" \in DOMAIN result.v.v
            /\ Tokens(RoundTripValue.enum)[result.v.v.index] = RoundTripValue.other
       ELSE SameVariant(RoundTripValue, result.v.v)

\* PowerUnit::Kw went out as kW and came back as the second variant
C14_Witness ==
  /\ RoundTripped
  /\ RoundTripValue = Variant("PowerUnit", <<"K","w">>)
  /\ call.v.token = <<"k","W">>
  /\ result.v = Ok(EnumVariant("PowerUnit", 2))

OpenEnumDecoded ==
  /\ Decoded
  /\ DecodedType.k = "Enum"
  /\ DecodedType.name \in OpenEnums
  /\ DecodedJson.j = "str"

\* C15: an open-ended enum read from a string that is none of its known
\* tokens is Other(s) with s the string as given; it is never an error.
C15_UnknownTokenIsOther ==
  (OpenEnumDecoded /\ ~KnownToken(DecodedType.name, DecodedJson.v))
    => result.v = Ok(EnumOther(DecodedType.name, DecodedJson.v))

\* Measurer has been read from "inverter", which is not its token INVERTER
C15_Witness ==
  /\ OpenEnumDecoded
  /\ DecodedType.name = "Measurer"
  /\ DecodedJson.v = <<"i","n","v","e","r","t","e","r">>
  /\ result.v = Ok(EnumOther("Measurer", <<"i","n","v","e","r","t","e","r">>))

\* the struct type that decodes the object at a path of a payload of type ty
FieldOfKey(fields, key) == fields[CHOOSE i \in 1..Len(fields) : key \in fields[i].keys]
RECURSIVE TypeAt(_, _)
TypeAt(ty, path) ==
  IF ty.k \in {"Option", "Vec"} THEN TypeAt(ty.of, path)
  ELSE IF path = <<>> THEN ty
  ELSE TypeAt(FieldOfKey(Schema(ty), Head(path)).ty, Tail(path))
DeclaredKeys(ty) == UNION {Schema(ty)[i].keys : i \in 1..Len(Schema(ty))}
ChangedDecoded(kind) == Decoded /\ "change" \in DOMAIN call.v /\ call.v.change = kind
ChangedStruct == TypeAt(DecodedType, call.v.path)

\* C16: a payload with a member added that the struct at that place does not
\* declare, at any depth, decodes to the value the payload decodes to without
\* it; a payload with a member taken out whose field is not an Option fails
\* to decode.
C16_UnknownIgnoredMissingFails ==
  /\ (ChangedDecoded("add") /\ call.v.key \notin DeclaredKeys(ChangedStruct))
       => /\ IsOk(result.v)
          /\ result.v = Deserialize(DecodedType, Sample(call.v.sample))
  /\ (ChangedDecoded("remove")
        /\ FieldOfKey(Schema(ChangedStruct), call.v.key).ty.k # "Option")
       => /\ IsErr(result.v)
          /\ result.v.e.kind = "Json"

\* site details were decoded with an unknown member inside "location", two
\* levels down
C16_Witness ==
  /\ ChangedDecoded("add")
  /\ call.v.sample = "details"
  /\ call.v.path = <<"details", "location">>
  /\ call.v.key = "extra"
  /\ "extra" \in DOMAIN DecodedJson.v["details"].v["location"].v
  /\ IsOk(result.v)
  /\ Get(Get(Get(result.v.v, "details"), "location"), "city") = <<"E","d","e">>


(***************************************************************************)
(* C17: each JSON dispatch method decodes its own top-level key only: a    *)
(* body whose top-level object lacks that key is a decode error, also when *)
(* it is the complete response of another endpoint, and a body that has    *)
(* the key decodes to the same value with a further top-level key as       *)
(* without it.                                                             *)
(***************************************************************************)
OwnRootKey(m) ==
  CASE m = "version_current" -> "version"
    [] m = "version_supported" -> "supported"
    [] m = "sites_list" -> "sites"
    [] m = "site_details" -> "details"
    [] m = "site_data_period" -> "dataPeriod"
    [] m = "site_data_period_bulk" -> "datePeriodList"
    [] m = "site_energy" -> "energy"
    [] m = "site_energy_bulk" -> "sitesEnergy"
    [] m = "site_time_frame_energy" -> "timeFrameEnergy"
    [] m = "site_time_frame_energy_bulk" -> "timeFrameEnergyList"
    [] m = "site_power" -> "power"
    [] m = "site_power_bulk" -> "powerDateValuesList"
    [] m = "site_overview" -> "overview"
    [] m = "site_overview_bulk" -> "sitesOverviews"
    [] m = "site_power_details" -> "powerDetails"
    [] m = "site_energy_details" -> "energyDetails"
    [] m = "site_current_power_flow" -> "siteCurrentPowerFlow"
    [] m = "site_storage_data" -> "storageData"
    [] m = "site_env_benefits" -> "envBenefits"
    [] m = "site_inventory" -> "Inventory"
    [] m = "site_meters" -> "meterEnergyDetails"
    [] m = "site_sensor_data" -> "siteSensors"
    [] m = "equipment_list" -> "reporters"
    [] m = "equipment_sensors" -> "SiteSensors"
    [] m = "equipment_data" -> "data"
    [] m = "equipment_changelog" -> "ChangeLog"
    [] m = "accounts_list" -> "accounts"
EnvelopeDecoded == pc = "done" /\ IsSome(call) /\ call.v.method \in JsonMethods /\ "keys" \in DOMAIN call.v
DecodedAlone(m) ==
  decoded(Deserialize(Dispatch(MethodInvocation(m)).top, Envelope({OwnRootKey(m)})),
          Dispatch(MethodInvocation(m)).unwrap)

C17_OwnRootKeyOnly ==
  EnvelopeDecoded =>
    IF OwnRootKey(call.v.method) \in call.v.keys
    THEN /\ IsOk(result.v)
         /\ result.v = DecodedAlone(call.v.method)
    ELSE /\ IsErr(result.v)
         /\ result.v.e.kind = "Json"

\* C17: site_overview_bulk is handed the complete response of site_overview
\* and answers a decode error
C17_Witness ==
  /\ EnvelopeDecoded
  /\ call.v.method = "site_overview_bulk"
  /\ call.v.keys = {"overview"}
  /\ IsErr(result.v)
  /\ result.v.e.kind = "Json"


(***************************************************************************)
(* C18: site_image and site_installer_image answer a response whose status *)
(* is not 4xx or 5xx with the bytes of its body, unchanged and without a   *)
(* JSON decode, so never with Error::Json; a 4xx or 5xx status is answered *)
(* with Error::Api as for every other method.                              *)
(***************************************************************************)
ImageMethod == InCall /\ Method \in {"site_image", "site_installer_image"}

C18_ImagesAreRawBytes ==
  (Answered /\ ImageMethod) =>
    /\ Count(steps, "from_slice") = 0
    /\ IsErr(result.v) => result.v.e.kind # "Json"
    /\ IF IsErrorStatus(AnsweredStatus)
       THEN IsErr(result.v) /\ result.v.e.kind = "Api" /\ result.v.e.status = AnsweredStatus
       ELSE result.v = Ok(response.v.v.body.bytes)

\* C18: site_image answered 200 with bytes that are neither JSON nor UTF-8
C18_Witness ==
  /\ Answered
  /\ Method = "site_image"
  /\ AnsweredStatus = 200
  /\ response.v.v.body = OtherBody(<<70, 255>>)
  /\ result.v = Ok(<<70, 255>>)


(***************************************************************************)
(* C19: every bulk method requests the path /sites/{ids}/<operation>.json, *)
(* {ids} being the site ids in decimal, in the order of the call and with  *)
(* its duplicates, joined by single commas: n ids (n >= 1) give n - 1      *)
(* commas, none of them first or last.                                     *)
(***************************************************************************)
BulkOperation(m) ==
  CASE m = "site_data_period_bulk" -> <<"d","a","t","a","P","e","r","i","o","d",".","j","s","o","n">>
    [] m = "site_energy_bulk" -> <<"e","n","e","r","g","y",".","j","s","o","n">>
    [] m = "site_time_frame_energy_bulk" -> <<"t","i","m","e","F","r","a","m","e","E","n","e","r","g","y",".","j","s","o","n">>
    [] m = "site_power_bulk" -> <<"p","o","w","e","r",".","j","s","o","n">>
    [] m = "site_overview_bulk" -> <<"o","v","e","r","v","i","e","w",".","j","s","o","n">>
BulkMethods ==
  {"site_data_period_bulk", "site_energy_bulk", "site_time_frame_energy_bulk",
   "site_power_bulk", "site_overview_bulk"}
SiteIdText(id) == CASE id = 5 -> <<"5">> [] id = 120 -> <<"1","2","0">>
BulkRequested == InCall /\ Method \in BulkMethods /\ IsSome(request)
IdsSegment == UriPathSegments(request.v.uri)[2]

C19_BulkIdsCommaJoined ==
  BulkRequested =>
    /\ UriPathSegments(request.v.uri)
         = <<<<"s","i","t","e","s">>,
             Join([i \in 1..Len(call.v.site) |-> SiteIdText(call.v.site[i])], <<",">>),
             BulkOperation(Method)>>
    /\ Len(call.v.site) >= 1 =>
         /\ Count(IdsSegment, ",") = Len(call.v.site) - 1
         /\ Head(IdsSegment) # ","
         /\ IdsSegment[Len(IdsSegment)] # ","

\* C19: site_energy_bulk for the sites 120, 120 asks for /sites/120,120/energy.json
C19_Witness ==
  /\ BulkRequested
  /\ Method = "site_energy_bulk"
  /\ call.v.site = <<120, 120>>
  /\ UriPathSegments(request.v.uri) = <<<<"s","i","t","e","s">>, <<"1","2","0",",","1","2","0">>, <<"e","n","e","r","g","y",".","j","s","o","n">>>>


(***************************************************************************)
(* C20: every request carries the key of the client once and in one place. *)
(* The current client sends a GET with an empty body whose X-API-Key       *)
(* header is the key and whose URL does not hold the key; the first client *)
(* writes api_key=<key> as the last pair of the query, after the           *)
(* parameters it serialized, also when there are none.                     *)
(***************************************************************************)
Contains(s, sub) == \E i \in 1..(Len(s) - Len(sub) + 1) : SubSeq(s, i, i + Len(sub) - 1) = sub
IsLegacyCall == IsSome(call) /\ "legacy" \in DOMAIN call.v
Requested == IsSome(call) /\ IsSome(request)
ApiKeyName == <<"a","p","i","_","k","e","y">>
PresentKeys(fields) == [i \in 1..Len(SelectSeq(fields, IsPresent)) |-> SelectSeq(fields, IsPresent)[i].key]
PairKeys(pairs) == [i \in 1..Len(pairs) |-> pairs[i].key]

C20_KeyOnceInOnePlace ==
  Requested =>
    /\ request.v.method = "GET"
    /\ request.v.body = <<>>
    /\ IF IsLegacyCall
       THEN /\ request.v.headers = <<>>
            /\ Len(RequestPairs) >= 1
            /\ PairsOf(ApiKeyName) = {Len(RequestPairs)}
            /\ FormDecode(RequestPairs[Len(RequestPairs)].value) = client.api_key
            /\ PairKeys(SubSeq(RequestPairs, 1, Len(RequestPairs) - 1))
                 = PresentKeys(LegacyDispatch(call.v).params)
       ELSE /\ request.v.headers = <<[name |-> "X-API-Key", value |-> client.api_key]>>
            /\ ~Contains(request.v.uri, client.api_key)
            /\ PairsOf(ApiKeyName) = {}

\* C20: sites_list of the first client, with a size and the key k&2, asks for
\* /sites/list.json?size=32&api_key=k%262
C20_Witness ==
  /\ Requested
  /\ IsLegacyCall
  /\ client.api_key = <<"k","&","2">>
  /\ call.v.method = "sites_list"
  /\ UriQuery(request.v.uri) = <<"s","i","z","e","=","3","2","&","a","p","i","_","k","e","y","=","k","%","2","6","2">>

(***************************************************************************)
(* C21: no dispatch method changes the configuration of the client: over   *)
(* any sequence of calls, whatever their outcomes, base_url, api_key and   *)
(* the injected adapter stay what new_with_client made them.               *)
(***************************************************************************)
C21_ConfigurationNeverChanges == [][client' = client]_vars

\* C21: a call has ended with Error::Api and the client is still the one
\* new_with_client built
C21_Witness ==
  /\ pc = "done"
  /\ IsErr(result.v)
  /\ result.v.e.kind = "Api"
  /\ client = new_with_client("adapter", <<"k","&","2">>)

(***************************************************************************)
(* C22: with several callers on one shared Client, in any interleaving and *)
(* after any earlier calls, the result of a call is a function of its own  *)
(* arguments, the configuration of the client and the response to its own  *)
(* request: it is never taken from the response of another call, and a     *)
(* call that returns a response-dependent result has issued its own        *)
(* request.                                                                *)
(***************************************************************************)
SameResult(a, b) ==
  /\ a.tag = b.tag
  /\ IF IsErr(a) THEN a.e.kind = b.e.kind /\ a.e = b.e ELSE a.v = b.v
OwnRequest(c) ==
  perform_request_prepare(client, Dispatch(call[c].v).url_path, Dispatch(call[c].v).params)

C22_ResultFromOwnCallOnly ==
  \A c \in Callers :
    pc[c] = "done" =>
      IF IsErr(OwnRequest(c))
      THEN /\ result[c] = Some(OwnRequest(c))
           /\ request[c] = None
           /\ response[c] = None
      ELSE /\ request[c] = Some(OwnRequest(c).v)
           /\ Count(steps[c], "execute") = 1
           /\ IsSome(response[c])
           /\ IsSome(result[c])
           /\ SameResult(result[c].v, fetch_finish(Dispatch(call[c].v), response[c].v).r)

\* C22: caller 1 holds the answer to version_current while caller 2, which
\* called equipment_list and got a server error, holds its own Error::Api
C22_Witness ==
  /\ pc = [c \in Callers |-> "done"]
  /\ call[1].v.method = "version_current"
  /\ call[2].v.method = "equipment_list"
  /\ IsOk(result[1].v)
  /\ result[1].v.v = <<"1",".","2",".","3">>
  /\ IsErr(result[2].v)
  /\ result[2].v.e.kind = "Api"
  /\ result[2].v.e.status = 500

(***************************************************************************)
(* C23: version_current requests /version/current.json, and for every      *)
(* response without error status whose body is {"version":{"release":s}}   *)
(* it returns the string s.                                                *)
(***************************************************************************)
IsVersionEnvelope(body) ==
  /\ IsSome(body.json)
  /\ body.json.v.j = "obj"
  /\ DOMAIN body.json.v.v = {"version"}
  /\ body.json.v.v.version.j = "obj"
  /\ DOMAIN body.json.v.v.version.v = {"release"}
  /\ body.json.v.v.version.v.release.j = "str"
ReleaseOf(body) == body.json.v.v.version.v.release.v

C23_VersionCurrentReturnsRelease ==
  (InCall /\ Method = "version_current") =>
    /\ IsSome(request)
    /\ UriPathSegments(request.v.uri) = <<<<"v","e","r","s","i","o","n">>, <<"c","u","r","r","e","n","t",".","j","s","o","n">>>>
    /\ ~UriHasQuery(request.v.uri)
    /\ (Answered /\ ~IsErrorStatus(AnsweredStatus) /\ IsVersionEnvelope(response.v.v.body))
         => (IsOk(result.v) /\ result.v.v = ReleaseOf(response.v.v.body))

\* C23: version_current answered 200 with {"version":{"release":"1.2.3"}}
\* returns 1.2.3
C23_Witness ==
  /\ Answered
  /\ Method = "version_current"
  /\ AnsweredStatus = 200
  /\ IsVersionEnvelope(response.v.v.body)
  /\ IsOk(result.v)
  /\ result.v.v = <<"1",".","2",".","3">>

(***************************************************************************)
(* C24: the steps of a call run in one order: the path is built and the    *)
(* parameters encoded, then execute, then the status check, then the       *)
(* decode.  The call waits at execute only, and the step in which execute  *)
(* returns, with a response or a transport error, ends the call with a     *)
(* result: nothing further is sent or awaited.                             *)
(***************************************************************************)
StepOrder == <<"to_string", "execute", "error_for_status", "from_slice">>
IsPrefix(s, t) == Len(s) <= Len(t) /\ s = SubSeq(t, 1, Len(s))
StepsInOrder ==
  /\ IsPrefix(steps, StepOrder)
  /\ pc = "idle" => steps = <<>>
  /\ pc = "awaiting" => (steps = <<"to_string", "execute">> /\ result = None /\ response = None)
  /\ pc = "done" => IsSome(result)
ExecuteEndsTheCall ==
  pc = "awaiting" =>
    /\ pc' = "done"
    /\ IsSome(response')
    /\ IsSome(result')
    /\ request' = request
    /\ Count(steps', "execute") = 1

C24_StepsInOrderWaitOnlyAtExecute == []StepsInOrder /\ [][ExecuteEndsTheCall]_vars

\* C24: a call that ran all four steps
C24_Witness ==
  /\ pc = "done"
  /\ steps = StepOrder
  /\ IsSome(result)
  /\ IsOk(result.v)

(***************************************************************************)
(* C25: only the statuses 400..599 make an API error.  A response with any *)
(* other status, 1xx, 2xx, 3xx (the 304 of the site image among them), is  *)
(* a success: a JSON method decodes its body, which is a decode error when *)
(* the body is not the envelope, and an image method returns its bytes.    *)
(***************************************************************************)
Finished == pc = "done" /\ IsSome(call) /\ "status" \in DOMAIN call.v
FinishedBody == response.v.v.body
FinishedIsEnvelope ==
  CASE call.v.method = "version_current" -> IsVersionEnvelope(FinishedBody)
    [] call.v.method = "equipment_list" -> FinishedBody.json = Some(ReportersJson)

C25_OnlyErrorStatusesAreApiErrors ==
  Finished =>
    IF call.v.status \in 400..599
    THEN /\ IsErr(result.v)
         /\ result.v.e.kind = "Api"
         /\ result.v.e.status = call.v.status
    ELSE IF call.v.method \in {"site_image", "site_installer_image"}
    THEN /\ IsOk(result.v)
         /\ result.v.v = FinishedBody.bytes
    ELSE IF FinishedIsEnvelope
    THEN IsOk(result.v)
    ELSE /\ IsErr(result.v)
         /\ result.v.e.kind = "Json"

\* C25: site_image answered 304 returns the bytes of the body
C25_Witness ==
  /\ Finished
  /\ call.v.method = "site_image"
  /\ call.v.status = 304
  /\ IsOk(result.v)
  /\ result.v.v = FinishedBody.bytes

\* ---- C26 ----
EnumDecoded == pc = "done" /\ IsSome(call) /\ "case" \in DOMAIN call.v

\* C26: in a response of the operation that carries it, one value of a closed
\* enum (SiteStatus, TimeUnit, MeterType, MeterForm, InverterMode,
\* PowerFlowElement, PowerFlowElementStatus, GasEmissionUnit, OperationMode,
\* BatteryState) that is not one of its tokens or discriminants makes the
\* whole call a decode error, also when the well-formed items of a list come
\* before it; a value the enum has decodes.
C26_UnknownClosedEnumValueFailsCall ==
  EnumDecoded =>
    IF call.v.case \in KnownCases THEN IsOk(result.v)
    ELSE IsErr(result.v) /\ result.v.e.kind = "Json"

\* C26 witness: equipment_data with two telemetries, the second with an
\* inverterMode that is no token, is a decode error
C26_Witness ==
  /\ EnumDecoded
  /\ call.v.method = "equipment_data"
  /\ call.v.enum = "InverterMode"
  /\ call.v.case = 3
  /\ IsErr(result.v)
  /\ result.v.e.kind = "Json"

\* ---- C27 ----
\* g is a number of 1..w digits
IsNumberText(g, w) == Len(g) \in 1..w /\ DigitsAt(g, 1..Len(g))
NumberOfText(g) == NumberAt(g, 1, Len(g))
\* year-month-day with each number in 1..4, 1..2, 1..2 digits, a day of the
\* calendar
IsLooseDateText(s) ==
  /\ Len(Split(s, {"-"})) = 3
  /\ IsNumberText(Split(s, {"-"})[1], 4)
  /\ IsNumberText(Split(s, {"-"})[2], 2)
  /\ IsNumberText(Split(s, {"-"})[3], 2)
  /\ ValidDate(NumberOfText(Split(s, {"-"})[1]), NumberOfText(Split(s, {"-"})[2]),
               NumberOfText(Split(s, {"-"})[3]))
\* hour:minute:second with each number in 1..2 digits, at most 23:59:60
IsLooseTimeText(s) ==
  /\ Len(Split(s, {":"})) = 3
  /\ \A i \in 1..3 : IsNumberText(Split(s, {":"})[i], 2)
  /\ NumberOfText(Split(s, {":"})[1]) <= 23
  /\ NumberOfText(Split(s, {":"})[2]) <= 59
  /\ NumberOfText(Split(s, {":"})[3]) <= 60
LooseDate(s) ==
  NaiveDate(NumberOfText(Split(s, {"-"})[1]), NumberOfText(Split(s, {"-"})[2]),
            NumberOfText(Split(s, {"-"})[3]))
\* s is a loose date, or a loose date, one space and a loose time
IsLooseDateTimeText(s) ==
  \/ IsLooseDateText(s)
  \/ /\ Len(Split(s, {" "})) = 2
     /\ IsLooseDateText(Split(s, {" "})[1])
     /\ IsLooseTimeText(Split(s, {" "})[2])
LooseDateTime(s) ==
  IF Len(Split(s, {" "})) = 1 THEN NaiveDateTime(LooseDate(s), 0, 0, 0)
  ELSE NaiveDateTime(LooseDate(Split(s, {" "})[1]),
                     NumberOfText(Split(Split(s, {" "})[2], {":"})[1]),
                     NumberOfText(Split(Split(s, {" "})[2], {":"})[2]),
                     NumberOfText(Split(Split(s, {" "})[2], {":"})[3]))
\* the date-time decoded for the field, once the decoding has succeeded
DateTimeFieldValue ==
  IF DecodedType = TStruct("site", "DateValue") THEN Get(result.v.v, "date")
  ELSE Get(result.v.v, "start_date").v

DateRoundTripped ==
  pc = "done" /\ IsSome(call) /\ call.v.method \in {"date_round_trip", "datetime_round_trip"}

\* C28: str_to_date of the text DateSerde::serialize writes for a date d is
\* d, and str_to_datetime of the text DateTimeSerde::serialize writes for a
\* date-time t of whole seconds is t, the midnight ones included.
C28_DateAdaptersRoundTrip ==
  DateRoundTripped => (IsOk(result.v) /\ result.v.v = call.v.value)

\* C28 witness: 12021-08-10 00:00:00 is written "+12021-08-10 00:00:00" and
\* read back as 00:00:00 of that day
C28_Witness ==
  /\ DateRoundTripped
  /\ call.v.method = "datetime_round_trip"
  /\ call.v.value = NaiveDateTime(NaiveDate(12021, 8, 10), 0, 0, 0)
  /\ call.v.text = <<"+","1","2","0","2","1","-","0","8","-","1","0"," ","0","0",":","0","0",":","0","0">>
  /\ IsOk(result.v)
  /\ result.v.v = call.v.value

\* ---- C29 ----
ReturnedErrorKinds == {"UrlEncode", "HttpRequest", "Api", "Json"}

Formatted == pc = "done" /\ IsSome(call) /\ call.v.method = "fmt"
HiddenField == <<"a","p","i","_","k","e","y",":"," ">> \o <<DQuote>> \o <<"<","h","i","d","d","e","n",">">> \o <<DQuote>>

\* C30: the Debug text of a Client is the same for any two keys, and shows
\* the field api_key as "<hidden>", for the Debug impl of either crate.
C30_DebugHidesApiKey ==
  Formatted =>
    /\ result.v.v[1] = result.v.v[2]
    /\ Contains(result.v.v[1], HiddenField)

\* C30 witness: clients with the keys API_KEY and k&2 have been written, and
\* neither text holds its key
C30_Witness ==
  /\ Formatted
  /\ call.v.crate = "solaredge"
  /\ call.v.api_keys = <<<<"A","P","I","_","K","E","Y">>, <<"k","&","2">>>>
  /\ result.v.v[1] = result.v.v[2]
  /\ ~Contains(result.v.v[1], call.v.api_keys[1])
  /\ ~Contains(result.v.v[2], call.v.api_keys[2])

====
